---- MODULE Spec2Model ----
(***************************************************************************)
(* Model of the cursor-stats extension's threshold notifier                *)
(* (handlers/notifications.ts).  The module-level state of the notifier    *)
(* is the three sets of notified thresholds and the re-entrancy flag.      *)
(* checkAndNotifyUsage and checkAndNotifySpending are async functions:     *)
(* each runs synchronously up to its first await, so a call is one atomic  *)
(* step up to that point, and every await is a suspension point at which   *)
(* other calls, resetNotifications and configuration changes interleave.   *)
(* A suspended evaluation is a record in evals holding its locals and the  *)
(* await it is parked on.                                                  *)
(***************************************************************************)
EXTENDS Integers, Sequences, FiniteSets, TLC

VARIABLES
    notifiedPremiumThresholds,     \* Set<number>, line 8
    notifiedUsageBasedThresholds,  \* Set<number>, line 9
    notifiedSpendingThresholds,    \* Set<number>, line 10
    isNotificationInProgress,      \* boolean, line 11
    config,                        \* the 'cursorStats' configuration section
    evals,                         \* suspended evaluations, oldest first
    ev,                            \* the last step taken (observation only)
    rearmed,                       \* per usage axis: thresholds cleared by a drop (observation only)
    spendTrack,                    \* the spending calls seen so far (observation only)
    resetSeen,                     \* resetNotifications has run (observation only)
    activation,                    \* where activate() stands (extension.ts, lines 152-373)
    lastWindowState,               \* e.focused of the last window state event
    refreshInterval,               \* the 'refreshInterval' setting, <<>> when unset
    refreshTimer,                  \* the refresh interval of utils/cooldown, <<>> when cleared
    focusCalls,                    \* what the window state listener called last (observation only)
    fetchPc,                       \* where fetchCursorStats stands (api.ts, lines 204-285)
    currentDate,                   \* new Date() (api.ts, line 242)
    usageBasedCurrentMonth,        \* api.ts, line 244
    usageBasedCurrentYear,         \* api.ts, line 245
    invoices,                      \* what get-monthly-invoice answers for the two months
    monthData,                     \* currentMonthData and lastMonthData (api.ts, lines 260-261)
    midMonthPayment,               \* the accumulator of fetchMonthData (api.ts, line 73)
    database,                      \* the state.vscdb file getCursorTokenFromDB reads
    tokenPc,                       \* where a call of getCursorTokenFromDB stands
    tokenPromise,                  \* the promise it returned (database.ts, line 33)
    tokenLog,                      \* what the call has written to the log
    dbAccess,                      \* how often the call opened the database and queried it
    apiCall,                       \* the call of a billing API function under way
    progressBar,                   \* the last call of generateProgressBar and its result
    limitCommand,                  \* the 'cursor-stats.setLimit' command under way (extension.ts, lines 243-332)
    usageBasedPricing,             \* the hard limit the billing server holds
    notifiedThresholds,            \* NotificationHandler.notifiedThresholds (part_000, line 177)
    handlerCheck,                  \* the last call of NotificationHandler.checkAndNotifyUsage (observation only)
    statusBarItem,                 \* StatusBarHandler.statusBarItem (part_001, line 368)
    statusRefresh,                 \* where StatusBarHandler.refresh stands
    colorSettings,                 \* the status bar settings of 'cursorStats'
    tCall,                         \* the last call of I18nService.t and what it gave
    timingCall                     \* the last call of findNewestTimingInfo and what it gave

notifierVars == <<notifiedPremiumThresholds, notifiedUsageBasedThresholds,
                  notifiedSpendingThresholds, isNotificationInProgress,
                  config, evals, ev>>

lifecycleVars == <<activation, lastWindowState, refreshInterval, refreshTimer,
                   focusCalls>>

fetchVars == <<fetchPc, currentDate, usageBasedCurrentMonth,
               usageBasedCurrentYear, invoices, monthData, midMonthPayment>>

callVars == <<database, tokenPc, tokenPromise, tokenLog, dbAccess, apiCall,
              progressBar>>

commandVars == <<limitCommand, usageBasedPricing>>

handlerVars == <<notifiedThresholds, handlerCheck>>

statusVars == <<statusBarItem, statusRefresh, colorSettings>>

uiVars == <<limitCommand, usageBasedPricing, notifiedThresholds, handlerCheck,
            statusBarItem, statusRefresh, colorSettings, tCall, timingCall>>

vars == <<notifiedPremiumThresholds, notifiedUsageBasedThresholds,
          notifiedSpendingThresholds, isNotificationInProgress, config,
          evals, ev, rearmed, spendTrack, resetSeen, activation,
          lastWindowState, refreshInterval, refreshTimer, focusCalls, fetchPc,
          currentDate, usageBasedCurrentMonth, usageBasedCurrentYear,
          invoices, monthData, midMonthPayment, database, tokenPc,
          tokenPromise, tokenLog, dbAccess, apiCall, progressBar,
          limitCommand, usageBasedPricing, notifiedThresholds, handlerCheck,
          statusBarItem, statusRefresh, colorSettings, tCall, timingCall>>

(***************************************************************************)
(* Bounds of the model.                                                    *)
(***************************************************************************)
\* Evaluations suspended at the same time (more than one needs a
\* resetNotifications while an evaluation awaits).
MaxInFlight == 2

\* The 'refreshInterval' settings tried, in seconds.
MaxRefreshSeconds == 6

\* The items of one invoice.
MaxItems == 3

\* The longest stored token, in characters.
MaxTokenLength == 22

\* The largest usage and the largest limit given to generateProgressBar.
MaxUsage == 12

\* The composer entries read from the database.
MaxEntries == 2

\* The conversation items of one composer entry.
MaxConversation == 2

(***************************************************************************)
(* Program constants.                                                      *)
(***************************************************************************)
\* config.get('refreshInterval', 30) (extension.ts, line 139).
DefaultRefreshInterval == 30

\* Math.max(..., 5): "Minimum 5 seconds" (extension.ts, line 139).
MinRefreshInterval == 5

\* const usageBasedBillingDay = 3 (api.ts, line 243).
UsageBasedBillingDay == 3

\* token.substring(0, 20) (database.ts, line 86).
TokenPrefixLength == 20

\* size: number = 10 (part_001, line 79).
DefaultBarSize == 10

(***************************************************************************)
(* Input domains.                                                          *)
(***************************************************************************)
\* The 'refreshInterval' setting: unset, or a number of seconds.
RefreshSettings == {<<>>} \cup { <<n>> : n \in -1..MaxRefreshSeconds }

\* The default of 'usageAlertThresholds' (line 88).
DefaultThresholds == <<10, 30, 50, 75, 90, 100>>

\* A user-configured list: unsorted, and with the threshold 0.
CustomThresholds == <<50, 0, 100>>

UsageTypes == {"premium", "usage-based"}

\* The UsageInfo arguments over percentages ps and premium percentages
\* pps (<<>> is a missing, undefined, premiumPercentage).  The field is
\* read only when the type is 'usage-based' (line 94), so it is left out
\* of premium evaluations.
UsageInfosOver(ps, pps) ==
    { [percentage |-> p, type |-> "usage-based", premiumPercentage |-> pp] :
        p \in ps, pp \in pps }
    \cup
    { [percentage |-> p, type |-> "premium", premiumPercentage |-> <<>>] :
        p \in ps }

ConfigsOver(alerts, lists, steps) ==
    [ enableAlerts : alerts,
      usageAlertThresholds : lists,
      spendingAlertThreshold : steps ]

\* The usage axes alone: the spending step stays at its default, $1
\* (money is counted in cents).
UsageConfigs == ConfigsOver(BOOLEAN, {DefaultThresholds, CustomThresholds}, {100})
UsageInfos == UsageInfosOver({5, 60, 82, 96, 120}, {<<>>, <<0>>, <<50>>, <<100>>})

\* The spending axis alone: the step is negative, 0, $0.39 or $1.
SpendingConfigs == ConfigsOver(BOOLEAN, {DefaultThresholds}, {-100, 0, 39, 100})
SpendValues == {0, 39, 78, 117, 200, 250}

\* The three axes together, over fewer values.
AllConfigs == ConfigsOver(BOOLEAN, {DefaultThresholds}, {0, 39})
AllUsageInfos == UsageInfosOver({5, 82}, {<<50>>, <<100>>})
AllSpendValues == {78, 117}

(***************************************************************************)
(* Pure helpers.                                                           *)
(***************************************************************************)
Range(s) == { s[i] : i \in 1..Len(s) }

RemoveAt(s, i) == SubSeq(s, 1, i - 1) \o SubSeq(s, i + 1, Len(s))

\* thresholds.sort((a, b) => b - a): descending order (line 89).
RECURSIVE SortDescending(_)
SortDescending(s) ==
    IF s = <<>> THEN <<>>
    ELSE LET i == CHOOSE k \in 1..Len(s) :
                    /\ \A j \in 1..Len(s) : s[j] <= s[k]
                    /\ \A j \in 1..(k - 1) : s[j] # s[k]
         IN  <<s[i]>> \o SortDescending(RemoveAt(s, i))

\* thresholds.find(threshold => percentage >= threshold) (line 100):
\* <<>> is undefined, <<h>> the first element that satisfies the test.
FindExceeded(thresholds, percentage) ==
    LET hits == { i \in 1..Len(thresholds) : percentage >= thresholds[i] }
    IN  IF hits = {} THEN <<>>
        ELSE <<thresholds[CHOOSE i \in hits : \A j \in hits : i <= j]>>

\* JavaScript truthiness of an optional number: undefined and 0 are falsy.
Truthy(opt) == opt # <<>> /\ opt[1] # 0

\* The suppression test of line 94:
\*   type === 'usage-based' && premiumPercentage && premiumPercentage < 100
SkipUsageBased(usageInfo) ==
    /\ usageInfo.type = "usage-based"
    /\ Truthy(usageInfo.premiumPercentage)
    /\ usageInfo.premiumPercentage[1] < 100

\* The action button offered by the usage notification (lines 108-122).
ActionLabel(type, percentage) ==
    IF type = "premium"
    THEN IF percentage > 100 THEN "enableUsageBased" ELSE "viewSettings"
    ELSE "manageLimit"

\* Pairs <<totalSpent, spendingThreshold>> of the domain (in cents) whose
\* quotient, computed in IEEE-754 doubles on the dollar values, falls just
\* below the exact integer quotient: 1.17 / 0.39 = 2.9999999999999996.
DivRoundsBelow == { <<117, 39>> }

\* Math.floor(totalSpent / spendingThreshold) (line 39).  A division by 0
\* gives Infinity or NaN, for which the test of line 43 is false: see
\* SpendingDue, which never uses the 0 returned here.
CurrentThresholdMultiple(totalSpent, spendingThreshold) ==
    IF <<totalSpent, spendingThreshold>> \in DivRoundsBelow
    THEN (totalSpent \div spendingThreshold) - 1
    ELSE IF spendingThreshold > 0 THEN totalSpent \div spendingThreshold
    ELSE IF spendingThreshold < 0
         THEN (0 - totalSpent) \div (0 - spendingThreshold)
    ELSE 0

\* (currentThresholdMultiple + 1) * spendingThreshold (line 40); the
\* product is exact on the domain (3 * 0.39 = 1.17 in doubles).
NextNotificationAmount(totalSpent, spendingThreshold) ==
    (CurrentThresholdMultiple(totalSpent, spendingThreshold) + 1) * spendingThreshold

\* The test of line 43.
SpendingDue(totalSpent, spendingThreshold, notified) ==
    /\ spendingThreshold # 0
    /\ totalSpent >= NextNotificationAmount(totalSpent, spendingThreshold)
    /\ (CurrentThresholdMultiple(totalSpent, spendingThreshold) + 1) \notin notified

\* The test of line 104.
UsageDue(highest, notified) ==
    /\ Truthy(highest)
    /\ highest[1] \notin notified

\* Only the threshold that fired is marked.
MarkOnlyFired(thresholds, highest, notified) == notified \cup {highest}

\* Lines 152-156: every threshold up to the one that fired is marked.
MarkUpTo(thresholds, highest, notified) ==
    notified \cup { t \in Range(thresholds) : t <= highest }

\* Lines 160-165: thresholds above the percentage are cleared.
ClearAbove(percentage, notified) ==
    { t \in notified : ~(percentage < t) }

\* relevantThresholds (line 103).
Relevant(type) ==
    IF type = "premium" THEN notifiedPremiumThresholds
    ELSE notifiedUsageBasedThresholds

(***************************************************************************)
(* Observation records.                                                    *)
(***************************************************************************)
\* The step just taken.  op: the function called or "resume" (an await
\* settled); at: the await that settled and outcome: whether it fulfilled
\* or rejected; result: how the step left the evaluation ("dialog": its
\* dialog is open, "awaiting": at another await, "done": returned,
\* "threw": left by an exception, or the guard that returned early);
\* shown: the user has answered the evaluation's dialog; fired: the
\* threshold (or spending multiple) the notification is about.
Event(op, type, amount, prem, at, outcome, result, shown, fired) ==
    [ op |-> op, type |-> type, amount |-> amount, prem |-> prem, at |-> at,
      outcome |-> outcome, result |-> result, shown |-> shown, fired |-> fired ]

NoEvent(op) == Event(op, "none", 0, <<>>, "none", "none", "none", FALSE, 0)

\* A call that returned at one of its guards, before looking at its argument.
Returned(op, type, result) ==
    Event(op, type, 0, <<>>, "none", "none", result, FALSE, 0)

\* A step of op, which is no function of the notifier: the notifier stays
\* as it is.
NotifierUntouched(op) ==
    /\ UNCHANGED <<notifiedPremiumThresholds, notifiedUsageBasedThresholds,
                   notifiedSpendingThresholds, isNotificationInProgress,
                   config, evals>>
    /\ ev' = NoEvent(op)


UnchangedNotified ==
    UNCHANGED <<notifiedPremiumThresholds, notifiedUsageBasedThresholds,
                notifiedSpendingThresholds>>

\* One set shared by the two usage axes.
SetBothUsageSets(type, new) ==
    /\ notifiedPremiumThresholds' = new
    /\ notifiedUsageBasedThresholds' = new
    /\ UNCHANGED notifiedSpendingThresholds

\* relevantThresholds aliases one of the two module-level sets (line 103).
SetRelevant(type, new) ==
    /\ notifiedPremiumThresholds' =
         IF type = "premium" THEN new ELSE notifiedPremiumThresholds
    /\ notifiedUsageBasedThresholds' =
         IF type = "premium" THEN notifiedUsageBasedThresholds ELSE new
    /\ UNCHANGED notifiedSpendingThresholds

(***************************************************************************)
(* resetNotifications (lines 14-20).                                       *)
(***************************************************************************)
ResetNotifications ==
    /\ notifiedPremiumThresholds' = {}
    /\ notifiedUsageBasedThresholds' = {}
    /\ notifiedSpendingThresholds' = {}
    /\ isNotificationInProgress' = FALSE
    /\ ev' = NoEvent("resetNotifications")
    /\ UNCHANGED <<config, evals>>

(***************************************************************************)
(* The user edits the 'cursorStats' settings; the notifier reads them      *)
(* afresh in every call (lines 27-28, 79-80, 88).                          *)
(***************************************************************************)
ConfigChange(c) ==
    /\ c # config
    /\ config' = c
    /\ ev' = NoEvent("configChange")
    /\ UNCHANGED <<notifiedPremiumThresholds, notifiedUsageBasedThresholds,
                   notifiedSpendingThresholds, isNotificationInProgress, evals>>

(***************************************************************************)
(* The guards and the cleanup shared by both check functions.              *)
(***************************************************************************)
\* if (isNotificationInProgress) return;  (lines 23-25, 75-77)
\* Variants of the guards and of the finally block, each without the part
\* of the code a property below depends on.
NeverDropCall == FALSE

DisabledOnlyAtZero(spendingThreshold) == spendingThreshold = 0

FlagLeftSet == TRUE

DropCall == isNotificationInProgress

\* if (spendingThreshold <= 0) return;  (lines 31-33)
SpendingDisabled(spendingThreshold) == spendingThreshold <= 0

\* if (!enableAlerts) return;  (lines 82-84)
AlertsDisabled == ~config.enableAlerts

\* finally { isNotificationInProgress = false; }  (lines 68-70, 166-168)
FinallyFlag == FALSE

\* The thresholds a finished usage evaluation leaves in its set.
AfterUsage(f) ==
    ClearAbove(f.amount, MarkUpTo(f.thresholds, f.fired, Relevant(f.type)))

(***************************************************************************)
(* checkAndNotifySpending(totalSpent) up to its first await (lines 22-47), *)
(* or to its end when nothing is due (lines 43, 68-70).                    *)
(***************************************************************************)
CheckAndNotifySpending(totalSpent) ==
    LET step     == config.spendingAlertThreshold
        multiple == CurrentThresholdMultiple(totalSpent, step) + 1
        Call(result, fired) ==
            Event("checkAndNotifySpending", "spending", totalSpent, <<>>,
                  "none", "none", result, FALSE, fired)
    IN
    /\ UNCHANGED config
    /\ \/ /\ DropCall
          /\ ev' = Returned("checkAndNotifySpending", "spending", "dropped")
          /\ UnchangedNotified
          /\ UNCHANGED <<isNotificationInProgress, evals>>
       \/ /\ ~DropCall
          /\ SpendingDisabled(step)
          /\ ev' = Returned("checkAndNotifySpending", "spending", "disabled")
          /\ UnchangedNotified
          /\ UNCHANGED <<isNotificationInProgress, evals>>
       \/ /\ ~DropCall
          /\ ~SpendingDisabled(step)
          /\ SpendingDue(totalSpent, step, notifiedSpendingThresholds)
          /\ Len(evals) < MaxInFlight
          /\ isNotificationInProgress' = TRUE
          /\ evals' = Append(evals,
                [ type |-> "spending", amount |-> totalSpent,
                  thresholds |-> <<>>, fired |-> multiple, pc |-> "convert1" ])
          /\ ev' = Call("awaiting", multiple)
          /\ UnchangedNotified
       \/ /\ ~DropCall
          /\ ~SpendingDisabled(step)
          /\ ~SpendingDue(totalSpent, step, notifiedSpendingThresholds)
          /\ isNotificationInProgress' = FinallyFlag
          /\ ev' = Call("done", 0)
          /\ UnchangedNotified
          /\ UNCHANGED evals

(***************************************************************************)
(* checkAndNotifyUsage(usageInfo) up to its first await (lines 73-130),    *)
(* or to its end when nothing is due (lines 93-104, 159-168).              *)
(***************************************************************************)
CheckAndNotifyUsage(usageInfo) ==
    LET type       == usageInfo.type
        percentage == usageInfo.percentage
        thresholds == SortDescending(config.usageAlertThresholds)
        highest    == FindExceeded(thresholds, percentage)
        Call(result, fired) ==
            Event("checkAndNotifyUsage", type, percentage,
                  usageInfo.premiumPercentage, "none", "none", result, FALSE, fired)
    IN
    /\ UNCHANGED config
    /\ \/ /\ DropCall
          /\ ev' = Returned("checkAndNotifyUsage", type, "dropped")
          /\ UnchangedNotified
          /\ UNCHANGED <<isNotificationInProgress, evals>>
       \/ /\ ~DropCall
          /\ AlertsDisabled
          /\ ev' = Returned("checkAndNotifyUsage", type, "disabled")
          /\ UnchangedNotified
          /\ UNCHANGED <<isNotificationInProgress, evals>>
       \/ /\ ~DropCall
          /\ ~AlertsDisabled
          /\ SkipUsageBased(usageInfo)
          /\ isNotificationInProgress' = FinallyFlag
          /\ ev' = Call("suppressed", 0)
          /\ UnchangedNotified
          /\ UNCHANGED evals
       \/ /\ ~DropCall
          /\ ~AlertsDisabled
          /\ ~SkipUsageBased(usageInfo)
          /\ UsageDue(highest, Relevant(type))
          /\ Len(evals) < MaxInFlight
          /\ isNotificationInProgress' = TRUE
          /\ evals' = Append(evals,
                [ type |-> type, amount |-> percentage,
                  thresholds |-> thresholds, fired |-> highest[1],
                  pc |-> "dialog" ])
          /\ ev' = Call("dialog", highest[1])
          /\ UnchangedNotified
       \/ /\ ~DropCall
          /\ ~AlertsDisabled
          /\ ~SkipUsageBased(usageInfo)
          /\ ~UsageDue(highest, Relevant(type))
          /\ SetRelevant(type, ClearAbove(percentage, Relevant(type)))
          /\ isNotificationInProgress' = FinallyFlag
          /\ ev' = Call("done", 0)
          /\ UNCHANGED evals

(***************************************************************************)
(* The ways a suspended evaluation goes on when its await settles.         *)
(***************************************************************************)
Resumed(f, outcome, result, shown) ==
    Event("resume", f.type, f.amount, <<>>, f.pc, outcome, result, shown, f.fired)

\* The awaited call fulfilled and the next await is reached.
Advance(i, pc) ==
    /\ evals' = [ evals EXCEPT ![i].pc = pc ]
    /\ UnchangedNotified
    /\ UNCHANGED <<isNotificationInProgress, config>>

\* The rest of the try block runs to its end, then the finally block:
\* lines 65-70 for spending, lines 151-168 for usage.
Finish(i, outcome) ==
    LET f == evals[i] IN
    /\ evals' = RemoveAt(evals, i)
    /\ isNotificationInProgress' = FinallyFlag
    /\ ev' = Resumed(f, outcome, "done", TRUE)
    /\ UNCHANGED config
    /\ IF f.type = "spending"
       THEN /\ notifiedSpendingThresholds' =
                 notifiedSpendingThresholds \cup {f.fired}
            /\ UNCHANGED <<notifiedPremiumThresholds,
                           notifiedUsageBasedThresholds>>
       ELSE SetRelevant(f.type, AfterUsage(f))

\* The awaited call rejected outside any catch: only the finally block
\* runs (lines 68-70, 166-168) and the exception leaves the function.
Throw(i, shown) ==
    /\ evals' = RemoveAt(evals, i)
    /\ isNotificationInProgress' = FinallyFlag
    /\ ev' = Resumed(evals[i], "rejected", "threw", shown)
    /\ UnchangedNotified
    /\ UNCHANGED config

\* What the user does with a dialog: the action button, the dismiss
\* button, the dialog closed (undefined), or the promise rejected.
DialogAnswers == {"action", "dismiss", "closed", "rejected"}

(***************************************************************************)
(* checkAndNotifySpending: await convertAndFormatCurrency(...) settles     *)
(* (lines 47-48).                                                          *)
(***************************************************************************)
ConvertSettled(i, fulfilled) ==
    LET f == evals[i] IN
    /\ f.pc \in {"convert1", "convert2"}
    /\ \/ /\ fulfilled
          /\ Advance(i, IF f.pc = "convert1" THEN "convert2" ELSE "dialog")
          /\ ev' = Resumed(f, "fulfilled",
                           IF f.pc = "convert1" THEN "awaiting" ELSE "dialog", FALSE)
       \/ /\ ~fulfilled
          /\ Throw(i, FALSE)

(***************************************************************************)
(* checkAndNotifySpending: await showInformationMessage(...) settles       *)
(* (lines 54-66).                                                          *)
(***************************************************************************)
SpendingDialogSettled(i, answer) ==
    LET f == evals[i] IN
    /\ f.type = "spending"
    /\ f.pc = "dialog"
    /\ \/ /\ answer = "rejected"
          /\ Throw(i, FALSE)
       \/ /\ answer = "action"
          /\ Advance(i, "setLimit")
          /\ ev' = Resumed(f, "fulfilled", "awaiting", TRUE)
       \/ /\ answer \in {"dismiss", "closed"}
          /\ Finish(i, "fulfilled")

(***************************************************************************)
(* checkAndNotifySpending: await executeCommand('cursor-stats.setLimit')   *)
(* settles (lines 61-66).                                                  *)
(***************************************************************************)
SpendingSetLimitSettled(i, fulfilled) ==
    LET f == evals[i] IN
    /\ f.type = "spending"
    /\ f.pc = "setLimit"
    /\ \/ /\ fulfilled
          /\ Finish(i, "fulfilled")
       \/ /\ ~fulfilled
          /\ Throw(i, TRUE)

(***************************************************************************)
(* checkAndNotifyUsage: await showWarningMessage(...) settles              *)
(* (lines 125-149).                                                        *)
(***************************************************************************)
UsageDialogSettled(i, answer) ==
    LET f == evals[i] IN
    /\ f.type \in UsageTypes
    /\ f.pc = "dialog"
    /\ \/ /\ answer = "rejected"
          /\ Throw(i, FALSE)
       \/ /\ answer = "action"
          /\ ActionLabel(f.type, f.amount) = "viewSettings"
          /\ Advance(i, "openSettings")
          /\ ev' = Resumed(f, "fulfilled", "awaiting", TRUE)
       \/ /\ answer = "action"
          /\ ActionLabel(f.type, f.amount) \in {"manageLimit", "enableUsageBased"}
          /\ Advance(i, "setLimit")
          /\ ev' = Resumed(f, "fulfilled", "awaiting", TRUE)
       \/ /\ answer \in {"dismiss", "closed"}
          /\ Finish(i, "fulfilled")

(***************************************************************************)
(* checkAndNotifyUsage: one of the settings commands settles               *)
(* (lines 132-145).  A failure of the first leads to the three fallback    *)
(* commands; a failure of one of those to showErrorMessage.                *)
(***************************************************************************)
SettingsCommandSettled(i, fulfilled) ==
    LET f == evals[i] IN
    /\ f.pc \in {"openSettings", "fallback1", "fallback2", "fallback3"}
    /\ \/ /\ f.pc = "openSettings"
          /\ fulfilled
          /\ Finish(i, "fulfilled")
       \/ /\ f.pc = "openSettings"
          /\ ~fulfilled
          /\ Advance(i, "fallback1")
          /\ ev' = Resumed(f, "rejected", "awaiting", TRUE)
       \/ /\ f.pc \in {"fallback1", "fallback2"}
          /\ fulfilled
          /\ Advance(i, IF f.pc = "fallback1" THEN "fallback2" ELSE "fallback3")
          /\ ev' = Resumed(f, "fulfilled", "awaiting", TRUE)
       \/ /\ f.pc = "fallback3"
          /\ fulfilled
          /\ Finish(i, "fulfilled")
       \/ /\ f.pc \in {"fallback1", "fallback2", "fallback3"}
          /\ ~fulfilled
          /\ Finish(i, "rejected")

(***************************************************************************)
(* checkAndNotifyUsage: await executeCommand('cursor-stats.setLimit')      *)
(* settles (lines 146-157).                                                *)
(***************************************************************************)
UsageSetLimitSettled(i, fulfilled) ==
    LET f == evals[i] IN
    /\ f.type \in UsageTypes
    /\ f.pc = "setLimit"
    /\ \/ /\ fulfilled
          /\ Finish(i, "fulfilled")
       \/ /\ ~fulfilled
          /\ Throw(i, TRUE)

(***************************************************************************)
(* The extension's lifecycle (extension.ts).                               *)
(***************************************************************************)
Max(a, b) == IF a >= b THEN a ELSE b

\* A refresh interval that reads the setting as it is, without the floor.
UnflooredIntervalMs(setting) ==
    (IF setting = <<>> THEN DefaultRefreshInterval ELSE setting[1]) * 1000

\* getRefreshIntervalMs (lines 137-141), on the value of the setting.
GetRefreshIntervalMs(setting) ==
    Max(IF setting = <<>> THEN DefaultRefreshInterval ELSE setting[1],
        MinRefreshInterval) * 1000

\* startRefreshInterval() of utils/cooldown: the intervals are cleared and
\* the refresh interval is started with the period getRefreshIntervalMs
\* gives for the setting.
StartRefreshInterval(setting) ==
    refreshTimer' = << [ setting |-> setting,
                         ms |-> GetRefreshIntervalMs(setting) ] >>

\* clearAllIntervals() of utils/cooldown.
ClearAllIntervals == refreshTimer' = <<>>

\* A listener that leads to updateStats, and from there to the notifier,
\* is registered: the window state listener (line 168) is the first.
ListenersLive == activation \in {"token", "status", "done", "failed"}

\* An activation that leaves the notifier as it finds it.
ActivationWithoutReset == NotifierUntouched("activate")

\* "Reset notifications on activation" (lines 160-161).
ActivationReset == ResetNotifications

\* activate() up to its first await (lines 152-190): the notifier is reset
\* and the window state listener is registered.
ActivateStart ==
    /\ activation = "none"
    /\ activation' = "token"
    /\ ActivationReset
    /\ UNCHANGED <<lastWindowState, refreshInterval, refreshTimer, focusCalls>>

\* Lines 197-364: the commands and the configuration listener are
\* registered and the refresh interval is started.
ActivateFinish ==
    /\ activation' = "done"
    /\ StartRefreshInterval(refreshInterval)
    /\ UNCHANGED <<lastWindowState, refreshInterval, focusCalls>>
    /\ NotifierUntouched("activate")

\* await getCursorTokenFromDB() settles (lines 190-195); a rejection is
\* rethrown by the catch of lines 365-372.
ActivateTokenSettled(fulfilled, hasToken) ==
    /\ activation = "token"
    /\ \/ /\ ~fulfilled
          /\ activation' = "failed"
          /\ UNCHANGED <<lastWindowState, refreshInterval, refreshTimer,
                         focusCalls>>
          /\ NotifierUntouched("activate")
       \/ /\ fulfilled
          /\ hasToken
          /\ activation' = "status"
          /\ UNCHANGED <<lastWindowState, refreshInterval, refreshTimer,
                         focusCalls>>
          /\ NotifierUntouched("activate")
       \/ /\ fulfilled
          /\ ~hasToken
          /\ ActivateFinish

\* await checkUsageBasedStatus(token) settles (line 193); the function
\* catches every error (api.ts, lines 44-57).
ActivateStatusSettled ==
    /\ activation = "status"
    /\ ActivateFinish

\* A listener that does not ask for the cooldown.
CallsWhateverTheCooldown(focused, cooling) ==
    IF focused
    THEN {"setIsWindowFocused", "updateStats", "startRefreshInterval"}
    ELSE {"setIsWindowFocused", "clearAllIntervals"}

\* What the window state listener calls (lines 169-186).
WindowStateCalls(focused, cooling) ==
    IF focused
    THEN IF cooling
         THEN {"setIsWindowFocused", "startCountdownDisplay"}
         ELSE {"setIsWindowFocused", "updateStats", "startRefreshInterval"}
    ELSE {"setIsWindowFocused", "clearAllIntervals"}

\* No window state event has been handled.
NoFocusCalls == [ cooling |-> FALSE, calls |-> {} ]

\* The window state listener (lines 168-187).  cooling: whether
\* getCooldownStartTime() is set.
WindowStateChanged(focused, cooling) ==
    /\ ListenersLive
    /\ lastWindowState' = IF focused THEN "focused" ELSE "unfocused"
    /\ focusCalls' = [ cooling |-> cooling,
                       calls |-> WindowStateCalls(focused, cooling) ]
    /\ IF "startRefreshInterval" \in WindowStateCalls(focused, cooling)
       THEN StartRefreshInterval(refreshInterval)
       ELSE IF "clearAllIntervals" \in WindowStateCalls(focused, cooling)
       THEN ClearAllIntervals
       ELSE UNCHANGED refreshTimer
    /\ UNCHANGED <<activation, refreshInterval>>
    /\ NotifierUntouched("onDidChangeWindowState")

\* The user edits 'cursorStats.refreshInterval'; the configuration
\* listener (lines 227-240), once registered, restarts the timer.
RefreshIntervalChanged(setting) ==
    /\ setting # refreshInterval
    /\ refreshInterval' = setting
    /\ IF activation = "done"
       THEN StartRefreshInterval(setting)
       ELSE UNCHANGED refreshTimer
    /\ UNCHANGED <<activation, lastWindowState, focusCalls>>
    /\ NotifierUntouched("onDidChangeConfiguration")

\* deactivate() (lines 375-395); the subscriptions of line 339 are
\* disposed with the extension.
Deactivate ==
    /\ activation = "done"
    /\ activation' = "deactivated"
    /\ ClearAllIntervals
    /\ UNCHANGED <<lastWindowState, refreshInterval, focusCalls>>
    /\ NotifierUntouched("deactivate")

(***************************************************************************)
(* fetchMonthData (services/api.ts, lines 59-202).                         *)
(*                                                                         *)
(* An item of response.data.items is a record: cents is <<>> when the item *)
(* has no 'cents' property and <<n>> otherwise (the payload is decoded     *)
(* JSON, so a present property is never undefined and the test of line 110 *)
(* never succeeds); description is <<>> when the property is missing and   *)
(* <<d>> otherwise, d the text as a sequence of tokens: a run of digits,   *)
(* a phrase, or a model name.  Money is counted in cents, the priceCents   *)
(* of a usage event in thousandths of a cent.                              *)
(***************************************************************************)
DigitsToken(n) == [ kind |-> "digits", n |-> n, s |-> "" ]

Phrase(s) == [ kind |-> "phrase", n |-> 0, s |-> s ]

Model(s) == [ kind |-> "model", n |-> 0, s |-> s ]

Item(cents, description) == [ cents |-> cents, description |-> description ]

\* item.hasOwnProperty('cents') (lines 79, 102).
HasCents(item) == item.cents # <<>>

\* description.includes(phrase) (lines 85, 108, 129).
Includes(description, phrase) ==
    \E i \in 1..Len(description) : description[i] = Phrase(phrase)

IsMidMonth(description) == Includes(description, "Mid-month usage paid")

IsFastPremium(description) == Includes(description, "extra fast premium requests")

\* description.match(/^(\d+)/) followed by parseInt (lines 90-92, 127):
\* <<>> when the text does not start with digits.
RequestMatch(description) ==
    IF Len(description) > 0 /\ description[1].kind = "digits"
    THEN <<description[1].n>>
    ELSE <<>>

\* description.match(/call(?:s)? to ([^,]+)/)?.[1] (lines 144-145).
ModelMatch(description) ==
    LET hits == { i \in 1..(Len(description) - 1) :
                    description[i] = Phrase("calls to") }
    IN  IF hits = {} THEN <<>>
        ELSE <<description[(CHOOSE i \in hits : \A j \in hits : i <= j) + 1].s>>

\* item.description.includes(...) on an item that has 'cents' and no
\* description is a TypeError (lines 85, 108), caught and rethrown by
\* lines 192-201.
Malformed(item) == HasCents(item) /\ item.description = <<>>

\* n.toString(): the decimal digits of a natural number.
RECURSIVE Digits(_)
Digits(n) == IF n < 10 THEN <<n>> ELSE Digits(n \div 10) \o <<n % 10>>

\* str.padStart(width, '0') (lines 133, 148).
RECURSIVE PadStart(_, _)
PadStart(digits, width) ==
    IF Len(digits) >= width THEN digits ELSE PadStart(<<0>> \o digits, width)

\* The first pass (lines 76-95): the largest request count among the items
\* that have cents, are no mid-month payment and start with digits.
RECURSIVE MaxRequestCount(_)
MaxRequestCount(items) ==
    IF items = <<>> THEN 0
    ELSE LET item == Head(items)
             rest == MaxRequestCount(Tail(items))
         IN  IF ~HasCents(item) \/ IsMidMonth(item.description[1])
                \/ RequestMatch(item.description[1]) = <<>>
             THEN rest
             ELSE Max(rest, RequestMatch(item.description[1])[1])

\* A padding one digit wider than the largest count.
WiderPaddingWidth(maxRequestCount) == Len(Digits(maxRequestCount)) + 1

\* maxRequestCount.toString().length (line 98).
PaddingWidth(maxRequestCount) == Len(Digits(maxRequestCount))

Abs(n) == IF n < 0 THEN 0 - n ELSE n

\* (cents / count / 100).toFixed(2), as a number of cents (lines 132-134,
\* 149); in the model branch a count of 0 leaves the amount as it is.
CostPerRequest(cents, count) ==
    IF count > 0 THEN (2 * cents + count) \div (2 * count) ELSE cents

\* e.details?.toolCallComposer || e.details?.composer (lines 159, 165).
Composer(e) ==
    IF e.toolCallComposer # <<>> THEN e.toolCallComposer ELSE e.composer

\* A match on the model alone.
SameModel(e, modelName, cents, count) ==
    /\ Composer(e) # <<>>
    /\ Composer(e)[1].modelIntent = modelName

\* The filter of lines 158-162: the same model and
\* Math.abs(e.priceCents - item.cents / count) < 0.01; a count of 0 makes
\* the quotient infinite or NaN and the test false.
SameModelAndCost(e, modelName, cents, count) ==
    /\ Composer(e) # <<>>
    /\ Composer(e)[1].modelIntent = modelName
    /\ count > 0
    /\ Abs(e.priceCents * count - 1000 * cents) < 10 * count

\* isMaxMode (lines 151-169).
IsMaxMode(usageEvents, modelName, cents, count) ==
    /\ usageEvents # <<>>
    /\ \E i \in 1..Len(usageEvents[1]) :
           /\ SameModelAndCost(usageEvents[1][i], modelName, cents, count)
           /\ Composer(usageEvents[1][i])[1].maxMode

\* A line of usageItems.  calculation is kept in its parts: the padded
\* count, the price per request, the label and the MAX marker; item is the
\* index of the item the line was made from (observation only).
Line(item, kind, count, price, label, max, totalDollars, description) ==
    [ item |-> item, kind |-> kind, count |-> count, price |-> price,
      label |-> label, max |-> max, totalDollars |-> totalDollars,
      description |-> description ]

\* The line pushed for item i, with the mid-month total so far
\* (lines 107-183).
LineOf(i, item, paid, width, usageEvents) ==
    LET description == item.description[1]
        cents == item.cents[1]
        requestMatch == RequestMatch(description)
        modelMatch == ModelMatch(description)
        requestCount == IF requestMatch = <<>> THEN 0 ELSE requestMatch[1]
        count == IF requestMatch = <<>> THEN 1 ELSE requestMatch[1]
    IN  IF IsMidMonth(description)
        THEN Line(i, "midMonth", <<>>, paid + Abs(cents), "Mid-month payment",
                  FALSE, 0 - (paid + Abs(cents)), description)
        ELSE IF IsFastPremium(description)
        THEN Line(i, "fast", PadStart(Digits(requestCount), width),
                  IF requestCount > 0 THEN CostPerRequest(cents, requestCount)
                  ELSE 0,
                  "(Fast Requests)",
                  FALSE, cents, description)
        ELSE IF modelMatch # <<>>
        THEN Line(i, "model", PadStart(Digits(count), width),
                  CostPerRequest(cents, count), modelMatch[1],
                  IsMaxMode(usageEvents, modelMatch[1], cents, count),
                  cents, description)
        ELSE Line(i, "model", PadStart(Digits(count), width),
                  CostPerRequest(cents, count), "(Requests)", FALSE,
                  cents, description)

\* The second pass (lines 100-184) from item i on: acc holds usageItems
\* and midMonthPayment.
RECURSIVE SecondPass(_, _, _, _, _)
SecondPass(items, i, width, usageEvents, acc) ==
    IF i > Len(items) THEN acc
    ELSE IF ~HasCents(items[i])
    THEN SecondPass(items, i + 1, width, usageEvents, acc)
    ELSE LET line == LineOf(i, items[i], acc.midMonthPayment, width, usageEvents)
         IN  SecondPass(items, i + 1, width, usageEvents,
                 [ usageItems |-> Append(acc.usageItems, line),
                   midMonthPayment |->
                       IF line.kind = "midMonth" THEN line.price
                       ELSE acc.midMonthPayment ])

\* The accumulator as an earlier pass has left it.
StaleMidMonthPayment == midMonthPayment

\* let midMonthPayment = 0 (line 73).
InitialMidMonthPayment == 0

\* What fetchMonthData gives for a response (lines 72-201): the items and
\* the mid-month total it returns, or the exception it rethrows.
MonthResult(status, usageItems, paid) ==
    [ status |-> status, items |-> usageItems, midMonthPayment |-> paid ]

NoMonthResult == MonthResult("none", <<>>, 0)

FetchMonthData(data) ==
    IF data.items = <<>>
    THEN MonthResult("returned", <<>>, InitialMidMonthPayment)
    ELSE IF \E i \in 1..Len(data.items[1]) : Malformed(data.items[1][i])
    THEN MonthResult("threw", <<>>, InitialMidMonthPayment)
    ELSE LET acc == SecondPass(data.items[1], 1,
                        PaddingWidth(MaxRequestCount(data.items[1])),
                        data.usageEvents,
                        [ usageItems |-> <<>>,
                          midMonthPayment |-> InitialMidMonthPayment ])
         IN  MonthResult("returned", acc.usageItems, acc.midMonthPayment)

(***************************************************************************)
(* fetchCursorStats (services/api.ts, lines 204-285).                      *)
(***************************************************************************)
\* A period that is the calendar month of the date.
CalendarMonth(date) == date.month + 1

\* The billing period of a date (lines 242-254); month is getMonth(),
\* 0..11.
BillingMonth(date) ==
    IF date.date < UsageBasedBillingDay
    THEN IF date.month + 1 = 1 THEN 12 ELSE date.month
    ELSE date.month + 1

BillingYear(date) ==
    IF date.date < UsageBasedBillingDay /\ BillingMonth(date) = 12
    THEN date.year - 1
    ELSE date.year

\* The premium request data has arrived; the period is computed
\* (lines 241-258) and the current month is requested (line 260).
FetchCursorStats(date) ==
    /\ fetchPc = "idle"
    /\ fetchPc' = "currentMonth"
    /\ currentDate' = date
    /\ usageBasedCurrentMonth' = BillingMonth(date)
    /\ usageBasedCurrentYear' = BillingYear(date)
    /\ UNCHANGED <<invoices, monthData, midMonthPayment>>

\* await fetchMonthData(...) settles (lines 260-261): the request failed,
\* or the response was aggregated.  An exception leaves fetchCursorStats
\* (lines 276-284).
MonthDataSettled(fulfilled) ==
    /\ fetchPc \in {"currentMonth", "lastMonth"}
    /\ LET result == IF fulfilled THEN FetchMonthData(invoices[fetchPc])
                     ELSE MonthResult("requestFailed", <<>>, 0)
       IN  /\ monthData' = [ monthData EXCEPT ![fetchPc] = result ]
           /\ midMonthPayment' =
                  IF fulfilled THEN result.midMonthPayment ELSE midMonthPayment
           /\ fetchPc' = IF result.status = "returned" /\ fetchPc = "currentMonth"
                         THEN "lastMonth" ELSE "idle"
    /\ UNCHANGED <<currentDate, usageBasedCurrentMonth, usageBasedCurrentYear,
                   invoices>>

(***************************************************************************)
(* Inputs of fetchCursorStats.                                             *)
(***************************************************************************)
\* The items tried: fast requests, model-based usage with and without a
\* leading count, a line without model, mid-month payments, metadata
\* without cents, an item with cents and no description, a count of 0.
ItemPool ==
    { Item(<<28>>, << <<DigitsToken(7), Phrase("extra fast premium requests")>> >>),
      Item(<<1680>>, << <<DigitsToken(42), Phrase("calls to"), Model("gpt-4")>> >>),
      Item(<<6300>>, << <<DigitsToken(630), Phrase("calls to"), Model("claude")>> >>),
      Item(<<40>>, << <<Phrase("calls to"), Model("gpt-4")>> >>),
      Item(<<500>>, << <<DigitsToken(5), Phrase("requests")>> >>),
      Item(<<-2000>>, << <<Phrase("Mid-month usage paid")>> >>),
      Item(<<-1500>>, << <<DigitsToken(1000), Phrase("Mid-month usage paid")>> >>),
      Item(<<>>, << <<DigitsToken(99999), Phrase("calls to"), Model("gpt-4")>> >>),
      Item(<<>>, <<>>),
      Item(<<100>>, <<>>),
      Item(<<0>>, << <<DigitsToken(0), Phrase("calls to"), Model("gpt-4")>> >>) }

UsageEvent(toolCallComposer, composer, priceCents) ==
    [ toolCallComposer |-> toolCallComposer, composer |-> composer,
      priceCents |-> priceCents ]

ComposerOf(modelIntent, maxMode) ==
    << [ modelIntent |-> modelIntent, maxMode |-> maxMode ] >>

\* The usageEvents tried: none; one MAX event at the price of the gpt-4
\* items; and a list where gpt-4 misses (by the flag, by the composer that
\* counts, by the price) while claude has a MAX event at its price beside
\* one that misses it by 0.02.
UsageEventLists ==
    { <<>>,
      << <<UsageEvent(ComposerOf("gpt-4", TRUE), <<>>, 40000)>> >>,
      << <<UsageEvent(<<>>, ComposerOf("gpt-4", FALSE), 40009),
           UsageEvent(ComposerOf("gpt-4", FALSE), ComposerOf("gpt-4", TRUE), 40000),
           UsageEvent(<<>>, ComposerOf("gpt-4", TRUE), 50000),
           UsageEvent(<<>>, ComposerOf("claude", FALSE), 10020),
           UsageEvent(<<>>, <<>>, 10000),
           UsageEvent(<<>>, ComposerOf("claude", TRUE), 10000)>> >> }

ItemLists == UNION { [1..n -> ItemPool] : n \in 0..MaxItems }

\* response.data: items and usageEvents are optional.
ResponseData(items, usageEvents) == [ items |-> items, usageEvents |-> usageEvents ]

Payloads ==
    { ResponseData(items, usageEvents) :
        items \in {<<>>} \cup { <<l>> : l \in ItemLists },
        usageEvents \in UsageEventLists }

\* The invoice of the month before: two mid-month payments and one line.
LastMonthInvoice ==
    ResponseData(
        << << Item(<<-2000>>, << <<Phrase("Mid-month usage paid")>> >>),
              Item(<<-1500>>, << <<Phrase("Mid-month usage paid")>> >>),
              Item(<<500>>, << <<DigitsToken(5), Phrase("requests")>> >>) >> >>,
        <<>>)

EmptyInvoice == ResponseData(<<>>, <<>>)

JsDate(year, month, date) == [ year |-> year, month |-> month, date |-> date ]

\* new Date(): getFullYear(), getMonth() (0..11) and getDate().
Dates ==
    { JsDate(year, month, date) :
        year \in {2024, 2025}, month \in 0..11, date \in {1, 2, 3, 4, 28} }

NoDate == JsDate(0, 0, 0)

(***************************************************************************)
(* getCursorTokenFromDB (services/database.ts, lines 32-117).              *)
(*                                                                         *)
(* The function returns a promise whose executor opens the database and    *)
(* queues the query; the callbacks of sqlite3 run later, each one step.    *)
(* The value stored under 'cursorAuth/accessToken' is a record: kind is    *)
(* "notString" (token.length throws), "garbage" (jwt.decode gives null),   *)
(* "jwtNoSub" (a JWT whose payload has no sub) or "jwt"; length is its     *)
(* number of characters; sub is <<>> or the subject, whose userId is <<>>  *)
(* when the subject holds no '|'.                                          *)
(***************************************************************************)
StoredValue(kind, length, sub) == [ kind |-> kind, length |-> length, sub |-> sub ]

Subject(userId) == << [ userId |-> userId ] >>

\* The lengths of the stored values tried, around the logged prefix.
TokenLengths == (TokenPrefixLength - 1)..MaxTokenLength

StoredValues ==
    { StoredValue("notString", 0, <<>>) }
    \cup { StoredValue(kind, n, <<>>) :
             kind \in {"garbage", "jwtNoSub"}, n \in TokenLengths }
    \cup { StoredValue("jwt", n, Subject(userId)) :
             n \in TokenLengths, userId \in {<<>>, <<"user">>} }

\* The database file: whether it can be opened, whether the query fails,
\* and the row of the key (<<>> when there is none).
Databases ==
    [ opens : BOOLEAN, queryFails : BOOLEAN,
      row : {<<>>} \cup { <<v>> : v \in StoredValues } ]

NoDatabase == [ opens |-> FALSE, queryFails |-> FALSE, row |-> <<>> ]

\* A line of the log: tokenChars is the number of leading characters of
\* the stored token it shows, decoded whether it shows the header, the
\* payload and the signature of the decoded token.
LogEntry(line, tokenChars, decoded) ==
    [ line |-> line, tokenChars |-> tokenChars, decoded |-> decoded ]

Plain(line) == LogEntry(line, 0, FALSE)

Min(a, b) == IF a <= b THEN a ELSE b

\* token.substring(0, 20) (line 86).
TokenPrefix(value) == Min(TokenPrefixLength, value.length)

\* The promise of line 33; resolves counts the calls of resolve().
PendingPromise == [ state |-> "pending", value |-> <<>>, resolves |-> 0 ]

NoPromise == [ state |-> "none", value |-> <<>>, resolves |-> 0 ]

\* resolve(value): the first call settles the promise, a later one is
\* ignored.
Resolve(promise, value) ==
    IF promise.state = "pending"
    THEN [ state |-> "resolved", value |-> value, resolves |-> promise.resolves + 1 ]
    ELSE [ promise EXCEPT !.resolves = @ + 1 ]

\* `${userId}%3A%3A${token}` (line 103).
SessionToken(value) ==
    << [ userId |-> value.sub[1].userId, token |-> value ] >>

\* A catch block that resolves nothing.
CatchLeavesPending == FALSE

\* The catch of lines 106-114 ends with resolve(undefined).
CatchResolvesUndefined == TRUE

\* The try block of lines 82-105 on the value of the row: what it logs and
\* how it leaves the promise.
ProcessToken(promise, value) ==
    IF value.kind = "notString"
    THEN [ log |-> << Plain(83), Plain(107), Plain(108) >>,
           promise |-> IF CatchResolvesUndefined THEN Resolve(promise, <<>>)
                       ELSE promise ]
    ELSE LET seen == << Plain(83), Plain(85),
                        LogEntry(86, TokenPrefix(value), FALSE),
                        Plain(89), Plain(90), Plain(91) >>
         IN  IF value.kind = "garbage"
             THEN [ log |-> Append(seen, Plain(94)),
                    promise |-> Resolve(promise, <<>>) ]
             ELSE IF value.kind = "jwtNoSub"
             THEN [ log |-> Append(seen, LogEntry(94, 0, TRUE)),
                    promise |-> Resolve(promise, <<>>) ]
             ELSE [ log |-> seen \o << Plain(100), Plain(102), Plain(104) >>,
                    promise |-> Resolve(promise, SessionToken(value)) ]

\* The call: the executor runs to its end (lines 33-59); the database is
\* opened once and the query queued once.
GetCursorTokenFromDB ==
    /\ tokenPc \in {"idle", "done"}
    /\ tokenPc' = "opening"
    /\ tokenPromise' = PendingPromise
    /\ tokenLog' = << Plain(36), Plain(37), Plain(38), Plain(39), Plain(58) >>
    /\ dbAccess' = [ opens |-> 1, queries |-> 1 ]
    /\ UNCHANGED <<database, apiCall, progressBar>>
    /\ NotifierUntouched("getCursorTokenFromDB")

\* The callback of new sqlite3.Database (lines 41-56).  After a failed
\* open sqlite3 may or may not call the callback of the queued query
\* (queued), with an error.
DatabaseOpened(queued) ==
    /\ tokenPc = "opening"
    /\ IF database.opens
       THEN /\ tokenPc' = "querying"
            /\ tokenLog' = Append(tokenLog, Plain(55))
            /\ UNCHANGED tokenPromise
       ELSE /\ tokenPc' = IF queued THEN "queryAfterFailedOpen" ELSE "done"
            /\ tokenLog' = tokenLog \o << Plain(44), Plain(45) >>
            /\ tokenPromise' = Resolve(tokenPromise, <<>>)
    /\ UNCHANGED <<database, dbAccess, apiCall, progressBar>>
    /\ NotifierUntouched("getCursorTokenFromDB")

\* The callback of db.get (lines 59-115).
QueryCompleted ==
    /\ tokenPc \in {"querying", "queryAfterFailedOpen"}
    /\ tokenPc' = "done"
    /\ IF tokenPc = "queryAfterFailedOpen" \/ database.queryFails
       THEN /\ tokenLog' = tokenLog \o << Plain(62), Plain(63) >>
            /\ tokenPromise' = Resolve(tokenPromise, <<>>)
       ELSE IF database.row = <<>>
       THEN /\ tokenLog' = tokenLog \o << Plain(73), Plain(77) >>
            /\ tokenPromise' = Resolve(tokenPromise, <<>>)
       ELSE LET done == ProcessToken(tokenPromise, database.row[1])
            IN  /\ tokenLog' = Append(tokenLog, Plain(73)) \o done.log
                /\ tokenPromise' = done.promise
    /\ UNCHANGED <<database, dbAccess, apiCall, progressBar>>
    /\ NotifierUntouched("getCursorTokenFromDB")

(***************************************************************************)
(* The billing API functions and their HTTP requests (services/api.ts).    *)
(***************************************************************************)
ApiFunctions ==
    { "getCurrentUsageLimit", "setUsageLimit", "checkUsageBasedStatus",
      "fetchMonthData", "fetchCursorStats" }

\* The requests a function sends, in order, when each of them succeeds:
\* lines 9, 26, 46 (through getCurrentUsageLimit), 62, and for
\* fetchCursorStats of a user without team lines 227, 260 and 261.
Requests(fn) ==
    IF fn \in {"getCurrentUsageLimit", "checkUsageBasedStatus"}
    THEN << "get-hard-limit" >>
    ELSE IF fn = "setUsageLimit" THEN << "set-hard-limit" >>
    ELSE IF fn = "fetchMonthData" THEN << "get-monthly-invoice" >>
    ELSE << "usage", "get-monthly-invoice", "get-monthly-invoice" >>

\* What the catch block of a function does with the error of a request:
\* lines 18-21, 38-41, 192-201 and 276-284 log and rethrow, lines 51-56
\* return { isEnabled: false }.
CatchOf(fn) ==
    IF fn = "checkUsageBasedStatus" THEN "default" ELSE "rethrow"

ApiCallOf(fn, pc, sent, failed, outcome, value) ==
    [ fn |-> fn, pc |-> pc, sent |-> sent, failed |-> failed,
      outcome |-> outcome, value |-> value ]

NoApiCall == ApiCallOf("none", "idle", <<>>, FALSE, "none", "none")

\* A function is called and sends its first request.
ApiCall(fn) ==
    /\ apiCall.pc # "request"
    /\ apiCall' = ApiCallOf(fn, "request", << Requests(fn)[1] >>, FALSE,
                            "none", "none")
    /\ UNCHANGED <<database, tokenPc, tokenPromise, tokenLog, dbAccess,
                   progressBar>>
    /\ NotifierUntouched(fn)

\* The request in flight settles: the next request is sent, the function
\* returns, or its catch block handles the failure.
ResponseArrived(ok) ==
    /\ apiCall.pc = "request"
    /\ LET fn == apiCall.fn
           n == Len(apiCall.sent)
       IN  /\ apiCall' =
                 IF ok /\ n < Len(Requests(fn))
                 THEN [ apiCall EXCEPT !.sent = Append(@, Requests(fn)[n + 1]) ]
                 ELSE IF ok
                 THEN [ apiCall EXCEPT !.pc = "settled",
                                       !.outcome = "fulfilled",
                                       !.value = "data" ]
                 ELSE IF CatchOf(fn) = "rethrow"
                 THEN [ apiCall EXCEPT !.pc = "settled", !.failed = TRUE,
                                       !.outcome = "rejected" ]
                 ELSE [ apiCall EXCEPT !.pc = "settled", !.failed = TRUE,
                                       !.outcome = "fulfilled",
                                       !.value = "default" ]
           /\ NotifierUntouched(fn)
    /\ UNCHANGED <<database, tokenPc, tokenPromise, tokenLog, dbAccess,
                   progressBar>>

ServicesIdle(databases) ==
    /\ database \in databases
    /\ tokenPc = "idle"
    /\ tokenPromise = NoPromise
    /\ tokenLog = <<>>
    /\ dbAccess = [ opens |-> 0, queries |-> 0 ]
    /\ apiCall = NoApiCall

(***************************************************************************)
(* generateProgressBar (utils/progressBars, part_001 lines 79-109).        *)
(***************************************************************************)
\* Math.round of the quotient a / b of two naturals, b > 0.
RoundDiv(a, b) == (2 * a + b) \div (2 * b)

\* The bar as a sequence of glyphs; overrideMax is <<>> for null.  The
\* arguments are naturals with max > 0 and effectiveMax > 0.
GenerateProgressBar(current, max, overrideMax, size) ==
    LET isOverLimit == current > max
        effectiveMax == IF overrideMax # <<>> /\ isOverLimit
                        THEN overrideMax[1] ELSE max
        filledBoxes == IF current >= effectiveMax THEN size
                       ELSE RoundDiv(current * size, effectiveMax)
        limitMarkerPosition == RoundDiv(max * size, effectiveMax)
    IN  IF isOverLimit
        THEN [ i \in 1..size |->
                 IF i - 1 < limitMarkerPosition
                 THEN (IF i - 1 < filledBoxes THEN "green" ELSE "white")
                 ELSE (IF i - 1 < filledBoxes THEN "red" ELSE "white") ]
        ELSE [ i \in 1..size |-> IF i <= filledBoxes THEN "green" ELSE "white" ]

\* The arguments of a call of generateProgressBar and, once it has
\* returned, the bar.
BarCall(current, max, overrideMax, size) ==
    [ current |-> current, max |-> max, overrideMax |-> overrideMax,
      size |-> size, returned |-> FALSE, bar |-> <<>> ]

NoProgressBar == BarCall(0, 0, <<>>, 0)

\* generateProgressBar returns.
RenderProgressBar ==
    /\ progressBar # NoProgressBar
    /\ ~progressBar.returned
    /\ progressBar' =
           [ progressBar EXCEPT
               !.returned = TRUE,
               !.bar = GenerateProgressBar(progressBar.current, progressBar.max,
                                           progressBar.overrideMax,
                                           progressBar.size) ]
    /\ UNCHANGED <<database, tokenPc, tokenPromise, tokenLog, dbAccess, apiCall>>
    /\ NotifierUntouched("generateProgressBar")

(***************************************************************************)
(* The 'cursor-stats.setLimit' command (extension.ts, lines 243-332).  The *)
(* handler is an async function: each await is a suspension point.  The    *)
(* billing server holds the hard limit and whether usage-based pricing is  *)
(* allowed.                                                                *)
(***************************************************************************)
\* What get-hard-limit answers and set-hard-limit stores.
UsageLimit(hardLimit, noUsageBasedAllowed) ==
    [ hardLimit |-> hardLimit, noUsageBasedAllowed |-> noUsageBasedAllowed ]

NoUsageBasedPricing == UsageLimit(0, TRUE)

\* The locals of the handler: token (line 244), isEnabled (line 252),
\* quickPick.value (line 278), the value of the input box (lines 281, 301),
\* the arguments of setUsageLimit once it is called, whether that call
\* resolved, and whether updateStats was called after it.
LimitCommand(pc, token, isEnabled, value, limit, write, written, updated) ==
    [ pc |-> pc, token |-> token, isEnabled |-> isEnabled, value |-> value,
      limit |-> limit, write |-> write, written |-> written,
      updated |-> updated ]

NoLimitCommand ==
    LimitCommand("idle", FALSE, <<>>, "none", <<>>, <<>>, FALSE, FALSE)

\* The three items of the quick pick (lines 254-272); <<>> is a dismissed
\* pick.
QuickPickValues == {"enable", "set", "disable"}

\* What showInputBox resolves to: undefined when cancelled, else a string
\* validateInput accepted, a number greater than 0 (lines 284-287).
LimitInputs == { <<>>, <<50>>, <<120>> }

\* A handler that goes on whatever the current status.
ProceedsWhateverTheStatus(value, isEnabled) == value \in QuickPickValues

\* The tests of the switch (lines 280, 300, 320): 'enable' goes on when
\* usage-based pricing is disabled, 'set' and 'disable' when it is enabled.
Proceeds(value, isEnabled) ==
    \/ value = "enable" /\ ~isEnabled
    \/ value \in {"set", "disable"} /\ isEnabled

\* A step of the command leaves the rest of the user interface alone.
CommandStep(op) ==
    /\ UNCHANGED <<notifiedThresholds, handlerCheck, statusBarItem,
                   statusRefresh, colorSettings, tCall, timingCall>>
    /\ NotifierUntouched(op)

\* The command is executed: the handler runs to await getCursorTokenFromDB()
\* (line 244).
SetLimitCommand ==
    /\ limitCommand.pc \in {"idle", "done"}
    /\ limitCommand' = [ NoLimitCommand EXCEPT !.pc = "token" ]
    /\ UNCHANGED usageBasedPricing
    /\ CommandStep("setLimit")

\* getCursorTokenFromDB settles (lines 244-251); it never rejects.
CommandTokenSettled(hasToken) ==
    /\ limitCommand.pc = "token"
    /\ limitCommand' = [ limitCommand EXCEPT
          !.token = hasToken,
          !.pc = IF hasToken THEN "currentLimit" ELSE "done" ]
    /\ UNCHANGED usageBasedPricing
    /\ CommandStep("setLimit")

\* getCurrentUsageLimit settles (lines 251-252); a rejection goes to the
\* catch of lines 329-331.
CurrentLimitSettled(ok) ==
    /\ limitCommand.pc = "currentLimit"
    /\ limitCommand' =
          IF ok
          THEN [ limitCommand EXCEPT
                   !.isEnabled = << ~usageBasedPricing.noUsageBasedAllowed >>,
                   !.pc = "quickPick" ]
          ELSE [ limitCommand EXCEPT !.pc = "done" ]
    /\ UNCHANGED usageBasedPricing
    /\ CommandStep("setLimit")

\* showQuickPick settles (lines 254-327): the pick is dismissed, or an
\* item is chosen and the switch either asks for the limit, disables
\* usage-based pricing at once, or only shows a message.
QuickPickSettled(pick) ==
    /\ limitCommand.pc = "quickPick"
    /\ UNCHANGED usageBasedPricing
    /\ CommandStep("setLimit")
    /\ IF pick = <<>>
       THEN limitCommand' = [ limitCommand EXCEPT !.pc = "done" ]
       ELSE IF ~Proceeds(pick[1], limitCommand.isEnabled[1])
       THEN limitCommand' = [ limitCommand EXCEPT
                                !.value = pick[1], !.pc = "done" ]
       ELSE IF pick[1] = "disable"
       THEN limitCommand' = [ limitCommand EXCEPT
                                !.value = pick[1],
                                !.write = << UsageLimit(0, TRUE) >>,
                                !.pc = "setUsageLimit" ]
       ELSE limitCommand' = [ limitCommand EXCEPT
                                !.value = pick[1], !.pc = "inputBox" ]

\* showInputBox settles (lines 281-293, 301-313): a cancelled box ends the
\* command, a value leads to setUsageLimit(token, Number(limit), false).
InputBoxSettled(limit) ==
    /\ limitCommand.pc = "inputBox"
    /\ UNCHANGED usageBasedPricing
    /\ CommandStep("setLimit")
    /\ IF limit = <<>>
       THEN limitCommand' = [ limitCommand EXCEPT !.pc = "done" ]
       ELSE limitCommand' = [ limitCommand EXCEPT
                                !.limit = limit,
                                !.write = << UsageLimit(limit[1], FALSE) >>,
                                !.pc = "setUsageLimit" ]

\* setUsageLimit settles (lines 289-291, 309-311, 321-323; api.ts, lines
\* 24-42): the server has stored the limit, the message is shown and
\* updateStats is called; a rejection goes to the catch.
SetUsageLimitSettled(ok) ==
    /\ limitCommand.pc = "setUsageLimit"
    /\ CommandStep("setLimit")
    /\ IF ok
       THEN /\ usageBasedPricing' = limitCommand.write[1]
            /\ limitCommand' = [ limitCommand EXCEPT
                                   !.written = TRUE, !.updated = TRUE,
                                   !.pc = "updateStats" ]
       ELSE /\ UNCHANGED usageBasedPricing
            /\ limitCommand' = [ limitCommand EXCEPT !.pc = "done" ]

\* updateStats settles (lines 291, 311, 323); a rejection goes to the
\* catch.
UpdateStatsSettled ==
    /\ limitCommand.pc = "updateStats"
    /\ limitCommand' = [ limitCommand EXCEPT !.pc = "done" ]
    /\ UNCHANGED usageBasedPricing
    /\ CommandStep("setLimit")

(***************************************************************************)
(* The class-based NotificationHandler (part_000, lines 174-221).          *)
(***************************************************************************)
\* The default of 'usageAlertThresholds' in the handler (line 196).
HandlerDefaultThresholds == <<75, 90, 100>>

\* The thresholds of the lists tried.
HandlerThresholds ==
    Range(HandlerDefaultThresholds) \cup Range(CustomThresholds)

\* The settings the handler reads: the alerts on or off, its default list
\* or the user's.
HandlerConfigs ==
    ConfigsOver(BOOLEAN, {HandlerDefaultThresholds, CustomThresholds}, {100})

\* A test that forgets what was notified.
Reached(percentage, threshold, notified) == percentage >= threshold

\* The test of line 203.
NewlyReached(percentage, threshold, notified) ==
    percentage >= threshold /\ threshold \notin notified

\* The loop of lines 202-215 over the list, in its order: the thresholds
\* for which a message is shown, each added to the set before the next is
\* tested (line 204).
RECURSIVE NotifyLoop(_, _, _)
NotifyLoop(thresholds, percentage, notified) ==
    IF thresholds = <<>> THEN <<>>
    ELSE IF NewlyReached(percentage, Head(thresholds), notified)
    THEN << Head(thresholds) >>
         \o NotifyLoop(Tail(thresholds), percentage,
                       notified \cup {Head(thresholds)})
    ELSE NotifyLoop(Tail(thresholds), percentage, notified)

\* Math.round((usage / Number(limit)) * 100) (line 192), for limit > 0.
HandlerPercentage(usage, limit) == (2 * usage * 100 + limit) \div (2 * limit)

\* The last call of the handler: its percentage, whether it passed the
\* test of line 198, the set it found, the thresholds it showed a message
\* for; and, since the last resetNotifications, the number of messages
\* per threshold (counted up to 2) and the notified thresholds the
\* percentage has been below.
HandlerCheck(op, percentage, enabled, before, shown, count, dropped) ==
    [ op |-> op, percentage |-> percentage, enabled |-> enabled,
      before |-> before, shown |-> shown, count |-> count,
      dropped |-> dropped ]

NoHandlerCheck ==
    HandlerCheck("none", 0, FALSE, {}, <<>>,
                 [ t \in HandlerThresholds |-> 0 ], {})

\* A step of the handler leaves the rest of the user interface alone.
HandlerStep(op) ==
    /\ UNCHANGED <<limitCommand, usageBasedPricing, statusBarItem,
                   statusRefresh, colorSettings, tCall, timingCall>>
    /\ NotifierUntouched(op)

\* NotificationHandler.checkAndNotifyUsage(limit) (lines 190-216); the
\* function has no await and runs in one step.  usage is what
\* dbService.getTotalUsage() gives.
HandlerCheckAndNotifyUsage(usage, limit) ==
    LET percentage == HandlerPercentage(usage, limit)
        shown == IF config.enableAlerts
                 THEN NotifyLoop(config.usageAlertThresholds, percentage,
                                 notifiedThresholds)
                 ELSE <<>>
        times(t) == Cardinality({ k \in 1..Len(shown) : shown[k] = t })
        after == notifiedThresholds \cup Range(shown)
    IN  /\ notifiedThresholds' = after
        /\ handlerCheck' =
              HandlerCheck("checkAndNotifyUsage", percentage,
                  config.enableAlerts, notifiedThresholds, shown,
                  [ t \in HandlerThresholds |->
                      IF handlerCheck.count[t] + times(t) > 2 THEN 2
                      ELSE handlerCheck.count[t] + times(t) ],
                  handlerCheck.dropped
                      \cup { t \in after : percentage < t })
        /\ HandlerStep("NotificationHandler.checkAndNotifyUsage")

\* NotificationHandler.resetNotifications() (lines 218-220).
HandlerResetNotifications ==
    /\ notifiedThresholds' = {}
    /\ handlerCheck' = [ NoHandlerCheck EXCEPT !.op = "resetNotifications" ]
    /\ HandlerStep("NotificationHandler.resetNotifications")

(***************************************************************************)
(* StatusBarHandler (part_001, lines 367-437).                             *)
(***************************************************************************)
\* The item: its text (by kind), its backgroundColor (<<>> is undefined,
\* else the theme colour) and its color (<<>> or the custom colour).
StatusBarItem(text, backgroundColor, color) ==
    [ text |-> text, backgroundColor |-> backgroundColor, color |-> color ]

\* createStatusBarItem (line 372).
NewStatusBarItem == StatusBarItem("none", <<>>, <<>>)

\* 'showExtendedUsage', 'enableStatusBarColors' and 'statusBarColor'
\* (lines 401-403); statusBarColor is <<>> for an empty string.
ColorSettings(showExtended, enableColors, customColor) ==
    [ showExtendedUsage |-> showExtended,
      enableStatusBarColors |-> enableColors,
      statusBarColor |-> customColor ]

\* The defaults of lines 401-403.
DefaultColorSettings == ColorSettings(FALSE, TRUE, <<"#4CAF50">>)

AllColorSettings ==
    { ColorSettings(showExtended, enableColors, customColor) :
        showExtended \in BOOLEAN, enableColors \in BOOLEAN,
        customColor \in { <<>>, <<"#4CAF50">> } }

\* A call of refresh: where it stands, how it ended, and the percentage
\* and the enableColors it computed with.
Refresh(pc, outcome, percentage, enableColors) ==
    [ pc |-> pc, outcome |-> outcome, percentage |-> percentage,
      enableColors |-> enableColors ]

NoRefresh == Refresh("idle", "none", 0, FALSE)

\* Math.round((usage / Number(limit)) * 100) (line 398), for a limit that
\* is a number greater than 0.
RefreshPercentage(usage, limit) == (2 * usage * 100 + limit) \div (2 * limit)

\* Lines 412-423: the background the refresh leaves, given the one it
\* found.
BackgroundColor(enableColors, percentage, found) ==
    IF ~enableColors THEN found
    ELSE IF percentage >= 90 THEN << "statusBarItem.errorBackground" >>
    ELSE IF percentage >= 75 THEN << "statusBarItem.warningBackground" >>
    ELSE <<>>

\* Lines 418-421: the colour the refresh leaves.
Color(settings, percentage, found) ==
    IF /\ settings.enableStatusBarColors
       /\ percentage < 75
       /\ settings.statusBarColor # <<>>
    THEN settings.statusBarColor
    ELSE found

\* A step of the status bar leaves the rest of the user interface alone.
StatusStep(op) ==
    /\ UNCHANGED <<limitCommand, usageBasedPricing, notifiedThresholds,
                   handlerCheck, tCall, timingCall>>
    /\ NotifierUntouched(op)

\* refresh() up to await this.dbService.getSetting('sessionToken')
\* (lines 379-381).
StatusRefresh ==
    /\ statusRefresh.pc \in {"idle", "done"}
    /\ statusRefresh' = Refresh("token", "none", 0, FALSE)
    /\ UNCHANGED <<statusBarItem, colorSettings>>
    /\ StatusStep("StatusBarHandler.refresh")

\* getSetting settles (lines 381-389, 426-431): no token, a token, or a
\* rejection.
RefreshTokenSettled(result) ==
    /\ statusRefresh.pc = "token"
    /\ UNCHANGED colorSettings
    /\ StatusStep("StatusBarHandler.refresh")
    /\ IF result = "token"
       THEN /\ statusRefresh' = [ statusRefresh EXCEPT !.pc = "limit" ]
            /\ UNCHANGED statusBarItem
       ELSE /\ statusRefresh' =
                 [ statusRefresh EXCEPT
                     !.pc = "done",
                     !.outcome = IF result = "none" THEN "noToken" ELSE "error" ]
            /\ statusBarItem' =
                 [ statusBarItem EXCEPT
                     !.text = IF result = "none" THEN "noToken" ELSE "error" ]

\* getCurrentUsageLimit settles (lines 389-431): a falsy value ("none"), a
\* rejection, or the limit, with which the text, the tooltip and the
\* colours are set.
\* usage is what dbService.getTotalUsage() gives.
RefreshLimitSettled(result, limit, usage) ==
    /\ statusRefresh.pc = "limit"
    /\ UNCHANGED colorSettings
    /\ StatusStep("StatusBarHandler.refresh")
    /\ IF result = "none"
       THEN /\ statusRefresh' =
                 [ statusRefresh EXCEPT !.pc = "done", !.outcome = "noLimit" ]
            /\ statusBarItem' = [ statusBarItem EXCEPT !.text = "noLimit" ]
       ELSE IF result = "rejected"
       THEN /\ statusRefresh' =
                 [ statusRefresh EXCEPT !.pc = "done", !.outcome = "error" ]
            /\ statusBarItem' = [ statusBarItem EXCEPT !.text = "error" ]
       ELSE LET percentage == RefreshPercentage(usage, limit) IN
            /\ statusRefresh' =
                 Refresh("done", "ok", percentage,
                         colorSettings.enableStatusBarColors)
            /\ statusBarItem' =
                 StatusBarItem(
                     IF colorSettings.showExtendedUsage
                     THEN "extended" ELSE "percentage",
                     BackgroundColor(colorSettings.enableStatusBarColors,
                                     percentage, statusBarItem.backgroundColor),
                     Color(colorSettings, percentage, statusBarItem.color))

\* The user edits the status bar settings.
ColorSettingsChanged(settings) ==
    /\ settings # colorSettings
    /\ colorSettings' = settings
    /\ UNCHANGED <<statusBarItem, statusRefresh>>
    /\ StatusStep("colorSettingsChanged")

(***************************************************************************)
(* I18nService.t (part_002, lines 86-133).                                 *)
(***************************************************************************)
\* A value of a translation table: a string, as a sequence of parts each
\* of which is literal text or a {param} placeholder, or an object with
\* named fields.
Literal(text) == [ lit |-> text, ph |-> "" ]

Placeholder(param) == [ lit |-> "", ph |-> param ]

String(text) == [ kind |-> "string", text |-> text, fields |-> <<>> ]

Object(fields) == [ kind |-> "object", text |-> <<>>, fields |-> fields ]

\* The two strings of the tables tried, in the two locales loaded (lines
\* 29-33): statusBar.noToken and statusBar.retryingIn.
TextOf(locale, leaf) ==
    IF leaf = "noToken"
    THEN << Literal(IF locale = "en" THEN "No token" ELSE "Ingen token") >>
    ELSE << Literal(IF locale = "en" THEN "Retrying in " ELSE "Nytt forsok om "),
            Placeholder("seconds") >>

\* The table of a locale that holds the given strings of statusBar.
Table(locale, leaves) ==
    Object([ group \in {"statusBar"} |->
               Object([ leaf \in leaves |-> String(TextOf(locale, leaf)) ]) ])

\* result[k] (lines 98, 122) on a value of a table: <<>> is undefined.
Property(node, k) ==
    IF node.kind = "object" /\ k \in DOMAIN node.fields
    THEN << node.fields[k] >>
    ELSE <<>>

\* The loop of lines 97-102: it throws at the first undefined.
RECURSIVE Traverse(_, _)
Traverse(node, keys) ==
    IF keys = <<>> THEN [ threw |-> FALSE, value |-> << node >> ]
    ELSE LET next == Property(node, Head(keys)) IN
         IF next = <<>> THEN [ threw |-> TRUE, value |-> <<>> ]
         ELSE Traverse(next[1], Tail(keys))

\* The loop of lines 121-123: no test; reading a property of undefined
\* throws a TypeError.
RECURSIVE TraverseUnchecked(_, _)
TraverseUnchecked(value, keys) ==
    IF keys = <<>> THEN [ threw |-> FALSE, value |-> value ]
    ELSE IF value = <<>> THEN [ threw |-> TRUE, value |-> <<>> ]
    ELSE TraverseUnchecked(Property(value[1], Head(keys)), Tail(keys))

\* String(value) of every parameter tried.
ParamValue == "5"

\* Lines 105-109: every {param} of the given params is replaced.
ReplaceParams(text, params) ==
    [ i \in 1..Len(text) |->
        IF text[i].ph \in params THEN Literal(ParamValue) ELSE text[i] ]

\* What t returns: a string, an object of the table, undefined, or the
\* key it was given.
Returns(kind, text) == [ kind |-> kind, text |-> text ]

ReturnsValue(value) ==
    IF value = <<>> THEN Returns("undefined", <<>>)
    ELSE Returns(value[1].kind, value[1].text)

\* Lines 116-128: the English table is traversed; a TypeError gives the
\* key, anything else is returned as it is.
EnglishFallback(enTranslation, keys) ==
    LET found == TraverseUnchecked(<< enTranslation >>, keys) IN
    IF found.threw THEN Returns("key", <<>>) ELSE ReturnsValue(found.value)

\* t(key, params) (lines 86-133) with key.split('.') = keys, params the
\* names of the parameters given, and the tables of the two locales.
T(currentLocale, translation, enTranslation, keys, params) ==
    LET found == Traverse(translation, keys)
        threw ==
            \/ found.threw
            \/ params # {} /\ found.value[1].kind # "string"
    IN  IF ~threw
        THEN IF found.value[1].kind = "string"
             THEN Returns("string", ReplaceParams(found.value[1].text, params))
             ELSE ReturnsValue(found.value)
        ELSE IF currentLocale # "en"
        THEN EnglishFallback(enTranslation, keys)
        ELSE Returns("key", <<>>)

\* A call of t: the locale, the strings the two tables hold, the key and
\* the parameters, and what it returned.
TCall(locale, enLeaves, svLeaves, keys, params) ==
    [ locale |-> locale, enLeaves |-> enLeaves, svLeaves |-> svLeaves,
      keys |-> keys, params |-> params, returned |-> FALSE,
      result |-> Returns("none", <<>>) ]

NoTCall == TCall("en", {}, {}, <<>>, {})

\* t returns.
Translate ==
    /\ tCall # NoTCall
    /\ ~tCall.returned
    /\ tCall' =
          [ tCall EXCEPT
              !.returned = TRUE,
              !.result =
                 T(tCall.locale,
                   Table(tCall.locale,
                         IF tCall.locale = "en" THEN tCall.enLeaves
                         ELSE tCall.svLeaves),
                   Table("en", tCall.enLeaves), tCall.keys, tCall.params) ]
    /\ UNCHANGED <<limitCommand, usageBasedPricing, notifiedThresholds,
                   handlerCheck, statusBarItem, statusRefresh, colorSettings,
                   timingCall>>
    /\ NotifierUntouched("t")

(***************************************************************************)
(* findNewestTimingInfo (services/database.ts, lines 256-297).             *)
(***************************************************************************)
\* The value of a composer entry: text JSON.parse rejects ("invalid"),
\* JSON without a conversation array ("noConversation"), or composer data
\* whose conversation is a sequence of items; an item is <<>> when it has
\* no timingInfo.clientStartTime, else << clientStartTime >>, a time in
\* milliseconds greater than 0.
Value(kind, conversation) == [ kind |-> kind, conversation |-> conversation ]

Items == { <<>>, <<1>>, <<2>> }

Values ==
    { Value("invalid", <<>>), Value("noConversation", <<>>) }
    \cup { Value("data", conversation) :
             conversation \in UNION { [ 1..n -> Items ] : n \in 0..MaxConversation } }

\* The rows of cursorDiskKV as readComposerEntries gives them (lines
\* 228-254): pairs of key and value; the key of row n is n.
Entries == UNION { [ 1..n -> Values ] : n \in 0..MaxEntries }

\* A TimingInfo: the key, the timestamp, and the conversation item whose
\* timingInfo object it refers to (lines 263-267).
Timing(key, timestamp, item) ==
    [ key |-> key, timestamp |-> timestamp, item |-> item ]

\* A test that lets the last of equal timestamps win.
NewerOrSame(timing, newestTiming) ==
    newestTiming = <<>> \/ timing.timestamp >= newestTiming[1].timestamp

\* !newestTiming || timing.timestamp > newestTiming.timestamp (lines 269,
\* 290); <<>> is null.
Newer(timing, newestTiming) ==
    newestTiming = <<>> \/ timing.timestamp > newestTiming[1].timestamp

\* The loop of lines 261-273 from item i on.
RECURSIVE NewestItem(_, _, _)
NewestItem(conversation, i, newestTiming) ==
    IF i > Len(conversation) THEN newestTiming
    ELSE IF conversation[i] # <<>>
            /\ Newer(Timing(0, conversation[i][1], i), newestTiming)
    THEN NewestItem(conversation, i + 1,
                    << Timing(0, conversation[i][1], i) >>)
    ELSE NewestItem(conversation, i + 1, newestTiming)

\* extractTimingInfo(value) (lines 256-280): null when the value does not
\* parse or the loop throws.
ExtractTimingInfo(value) ==
    IF value.kind # "data" THEN <<>>
    ELSE NewestItem(value.conversation, 1, <<>>)

\* The loop of lines 286-294 from entry n on.
RECURSIVE NewestEntry(_, _, _)
NewestEntry(entries, n, newestTiming) ==
    IF n > Len(entries) THEN newestTiming
    ELSE LET timing == ExtractTimingInfo(entries[n]) IN
         IF timing # <<>>
            /\ Newer([ timing[1] EXCEPT !.key = n ], newestTiming)
         THEN NewestEntry(entries, n + 1, << [ timing[1] EXCEPT !.key = n ] >>)
         ELSE NewestEntry(entries, n + 1, newestTiming)

\* A call of findNewestTimingInfo: the entries it reads and, once it has
\* returned, the result.
TimingCall(entries) ==
    [ entries |-> entries, returned |-> FALSE, result |-> <<>> ]

NoTimingCall == [ TimingCall(<<>>) EXCEPT !.returned = TRUE ]

\* readComposerEntries settles and findNewestTimingInfo returns (lines
\* 282-297).
FindNewestTimingInfo ==
    /\ ~timingCall.returned
    /\ timingCall' =
          [ timingCall EXCEPT
              !.returned = TRUE,
              !.result = NewestEntry(timingCall.entries, 1, <<>>) ]
    /\ UNCHANGED <<limitCommand, usageBasedPricing, notifiedThresholds,
                   handlerCheck, statusBarItem, statusRefresh, colorSettings,
                   tCall>>
    /\ NotifierUntouched("findNewestTimingInfo")

\* No command, handler or formatting call of the user interface is under
\* way.
UiIdle ==
    /\ limitCommand = NoLimitCommand
    /\ usageBasedPricing = NoUsageBasedPricing
    /\ notifiedThresholds = {}
    /\ handlerCheck = NoHandlerCheck
    /\ statusBarItem = NewStatusBarItem
    /\ statusRefresh = NoRefresh
    /\ colorSettings = DefaultColorSettings
    /\ tCall = NoTCall
    /\ timingCall = NoTimingCall

\* Nothing of the services or of the formatting is under way.
NoCalls ==
    ServicesIdle({NoDatabase}) /\ progressBar = NoProgressBar /\ UiIdle

(***************************************************************************)
(* Observers: history kept for the properties; the program reads none of   *)
(* it.  Each is a function of the step the program has just taken.         *)
(***************************************************************************)
NotifiedOf(type) ==
    IF type = "premium" THEN notifiedPremiumThresholds
    ELSE IF type = "usage-based" THEN notifiedUsageBasedThresholds
    ELSE notifiedSpendingThresholds

\* rearmed[a]: the thresholds of axis a that were notified, then cleared
\* by the hysteresis loop, and have not been notified again since.
ObserveRearmed ==
    rearmed' =
        IF ev'.op = "resetNotifications" THEN [ a \in UsageTypes |-> {} ]
        ELSE [ a \in UsageTypes |->
                 (rearmed[a] \cup (NotifiedOf(a) \ NotifiedOf(a)'))
                 \ NotifiedOf(a)' ]

\* spendTrack.ok: since the module was loaded there was no reset, the step
\* was > 0 and never changed, and every spending evaluation came with a
\* total not below the one before; last: the latest total; shown: the
\* multiples whose notification the user has answered.
SpendTrackStart == [ ok |-> TRUE, last |-> 0, shown |-> {} ]

SpendTrackBroken == [ ok |-> FALSE, last |-> 0, shown |-> {} ]

ObserveSpending ==
    spendTrack' =
        IF ~spendTrack.ok \/ ev'.op = "resetNotifications" THEN SpendTrackBroken
        ELSE IF ev'.op = "configChange"
        THEN IF config'.spendingAlertThreshold = config.spendingAlertThreshold
             THEN spendTrack ELSE SpendTrackBroken
        ELSE IF ev'.op = "checkAndNotifySpending"
        THEN IF ev'.result = "dropped" THEN spendTrack
             ELSE IF ev'.result = "disabled" \/ ev'.amount < spendTrack.last
             THEN SpendTrackBroken
             ELSE [ spendTrack EXCEPT !.last = ev'.amount ]
        ELSE IF ev'.type = "spending" /\ ev'.at = "dialog" /\ ev'.shown
        THEN [ spendTrack EXCEPT !.shown = @ \cup {ev'.fired} ]
        ELSE spendTrack

(***************************************************************************)
(* Initial state: the module has just been loaded (lines 8-11).            *)
(***************************************************************************)
InitOver(configs) ==
    /\ notifiedPremiumThresholds = {}
    /\ notifiedUsageBasedThresholds = {}
    /\ notifiedSpendingThresholds = {}
    /\ isNotificationInProgress = FALSE
    /\ config \in configs
    /\ evals = <<>>
    /\ ev = NoEvent("init")
    /\ rearmed = [ t \in UsageTypes |-> {} ]
    /\ spendTrack = SpendTrackStart

\* The extension host has loaded the extension and not yet called
\* activate().
NotActivated(settings) ==
    /\ activation = "none"
    /\ lastWindowState = "none"
    /\ refreshInterval \in settings
    /\ refreshTimer = <<>>
    /\ focusCalls = NoFocusCalls
    /\ resetSeen = FALSE

\* fetchCursorStats has not been called; the server holds the invoices.
FetchIdle(currentInvoices, lastInvoices) ==
    /\ fetchPc = "idle"
    /\ currentDate = NoDate
    /\ usageBasedCurrentMonth = 0
    /\ usageBasedCurrentYear = 0
    /\ invoices \in [ currentMonth : currentInvoices, lastMonth : lastInvoices ]
    /\ monthData = [ currentMonth |-> NoMonthResult, lastMonth |-> NoMonthResult ]
    /\ midMonthPayment = 0

NoFetch == FetchIdle({EmptyInvoice}, {EmptyInvoice})

\* activate() has returned: the notifier was reset (line 161) and the
\* refresh interval started (line 355).
Activated ==
    /\ activation = "done"
    /\ lastWindowState = "none"
    /\ refreshInterval = <<>>
    /\ refreshTimer = << [ setting |-> <<>>, ms |-> GetRefreshIntervalMs(<<>>) ] >>
    /\ focusCalls = NoFocusCalls
    /\ resetSeen = TRUE

(***************************************************************************)
(* Specifications: the notifier under every interleaving of its callers.   *)
(* Each step of the program is observed by the observers a specification   *)
(* needs; the others stay as they are.                                     *)
(***************************************************************************)
ObserveReset == resetSeen' = (resetSeen \/ ev'.op = "resetNotifications")

\* A step of the notifier leaves the rest of the extension as it is.
OutsideNotifier ==
    /\ UNCHANGED lifecycleVars /\ UNCHANGED fetchVars /\ UNCHANGED callVars
    /\ UNCHANGED uiVars

NoObserver ==
    UNCHANGED <<rearmed, spendTrack>> /\ ObserveReset /\ OutsideNotifier

UsageObserver ==
    ObserveRearmed /\ UNCHANGED spendTrack /\ ObserveReset /\ OutsideNotifier

SpendingObserver ==
    ObserveSpending /\ UNCHANGED rearmed /\ ObserveReset /\ OutsideNotifier

\* A step of the lifecycle.
LifecycleObserver ==
    /\ UNCHANGED <<rearmed, spendTrack>>
    /\ ObserveReset
    /\ UNCHANGED fetchVars
    /\ UNCHANGED callVars
    /\ UNCHANGED uiVars

\* The settings change but the list of thresholds stays as it is.
SameListConfigChange(configs) ==
    \E c \in configs :
        /\ c.usageAlertThresholds = config.usageAlertThresholds
        /\ ConfigChange(c)

\* The two usage axes in one session of the extension: the list of
\* thresholds stays as it is, and resetNotifications has run in activate()
\* (extension.ts, line 161), its only caller, before the first evaluation.
UsageInit == InitOver(UsageConfigs) /\ Activated /\ NoFetch /\ NoCalls

UsageNext ==
    \/ SameListConfigChange(UsageConfigs) /\ UsageObserver
    \/ \E u \in UsageInfos : CheckAndNotifyUsage(u) /\ UsageObserver
    \/ \E i \in 1..Len(evals) : \E a \in DialogAnswers :
          UsageDialogSettled(i, a) /\ UsageObserver
    \/ \E i \in 1..Len(evals) : \E ok \in BOOLEAN :
          SettingsCommandSettled(i, ok) /\ UsageObserver
    \/ \E i \in 1..Len(evals) : \E ok \in BOOLEAN :
          UsageSetLimitSettled(i, ok) /\ UsageObserver

UsageSpec == UsageInit /\ [][UsageNext]_vars

\* The spending axis.
SpendingInit == InitOver(SpendingConfigs) /\ Activated /\ NoFetch /\ NoCalls

SpendingNext ==
    \/ ResetNotifications /\ SpendingObserver
    \/ \E c \in SpendingConfigs : ConfigChange(c) /\ SpendingObserver
    \/ \E t \in SpendValues : CheckAndNotifySpending(t) /\ SpendingObserver
    \/ \E i \in 1..Len(evals) : \E ok \in BOOLEAN :
          ConvertSettled(i, ok) /\ SpendingObserver
    \/ \E i \in 1..Len(evals) : \E a \in DialogAnswers :
          SpendingDialogSettled(i, a) /\ SpendingObserver
    \/ \E i \in 1..Len(evals) : \E ok \in BOOLEAN :
          SpendingSetLimitSettled(i, ok) /\ SpendingObserver

SpendingSpec == SpendingInit /\ [][SpendingNext]_vars

\* The three axes together, from the loading of the extension: the
\* evaluations are started by updateStats, which runs once a listener
\* that calls it is registered.
Init == InitOver(AllConfigs) /\ NotActivated({<<>>}) /\ NoFetch /\ NoCalls

Next ==
    \/ ActivateStart /\ LifecycleObserver
    \/ \E ok \in BOOLEAN : \E token \in BOOLEAN :
          ActivateTokenSettled(ok, token) /\ LifecycleObserver
    \/ ActivateStatusSettled /\ LifecycleObserver
    \/ ResetNotifications /\ NoObserver
    \/ \E c \in AllConfigs : ConfigChange(c) /\ NoObserver
    \/ \E u \in AllUsageInfos :
          ListenersLive /\ CheckAndNotifyUsage(u) /\ NoObserver
    \/ \E t \in AllSpendValues :
          ListenersLive /\ CheckAndNotifySpending(t) /\ NoObserver
    \/ \E i \in 1..Len(evals) : \E a \in DialogAnswers :
          UsageDialogSettled(i, a) /\ NoObserver
    \/ \E i \in 1..Len(evals) : \E ok \in BOOLEAN :
          SettingsCommandSettled(i, ok) /\ NoObserver
    \/ \E i \in 1..Len(evals) : \E ok \in BOOLEAN :
          UsageSetLimitSettled(i, ok) /\ NoObserver
    \/ \E i \in 1..Len(evals) : \E ok \in BOOLEAN :
          ConvertSettled(i, ok) /\ NoObserver
    \/ \E i \in 1..Len(evals) : \E a \in DialogAnswers :
          SpendingDialogSettled(i, a) /\ NoObserver
    \/ \E i \in 1..Len(evals) : \E ok \in BOOLEAN :
          SpendingSetLimitSettled(i, ok) /\ NoObserver

Spec == Init /\ [][Next]_vars

\* The lifecycle of the extension: activation, window state, the refresh
\* setting and the refresh timer.
ExtInit ==
    InitOver(AllConfigs) /\ NotActivated(RefreshSettings) /\ NoFetch /\ NoCalls

ExtNext ==
    \/ ActivateStart /\ LifecycleObserver
    \/ \E ok \in BOOLEAN : \E token \in BOOLEAN :
          ActivateTokenSettled(ok, token) /\ LifecycleObserver
    \/ ActivateStatusSettled /\ LifecycleObserver
    \/ \E focused \in BOOLEAN : \E cooling \in BOOLEAN :
          WindowStateChanged(focused, cooling) /\ LifecycleObserver
    \/ \E setting \in RefreshSettings :
          RefreshIntervalChanged(setting) /\ LifecycleObserver
    \/ Deactivate /\ LifecycleObserver

ExtSpec == ExtInit /\ [][ExtNext]_vars

\* A step of fetchCursorStats.
FetchObserver ==
    /\ UNCHANGED <<rearmed, spendTrack>>
    /\ ObserveReset
    /\ UNCHANGED lifecycleVars
    /\ UNCHANGED callVars
    /\ UNCHANGED uiVars
    /\ NotifierUntouched("fetchCursorStats")

\* The notifier as the activated extension can have left it: nothing
\* notified, or the spending multiple 3 notified ($1.17 at a step of
\* $0.39).
NotifierSomewhere ==
    /\ notifiedPremiumThresholds = {}
    /\ notifiedUsageBasedThresholds = {}
    /\ notifiedSpendingThresholds \in {{}, {3}}
    /\ isNotificationInProgress = FALSE
    /\ config \in ConfigsOver({TRUE}, {DefaultThresholds}, {39})
    /\ evals = <<>>
    /\ ev = NoEvent("init")
    /\ rearmed = [ t \in UsageTypes |-> {} ]
    /\ spendTrack = SpendTrackBroken

\* The aggregation of invoices: fetchCursorStats is run again and again
\* on the invoices the server holds, on one date.
FetchInit ==
    /\ NotifierSomewhere /\ Activated /\ NoCalls
    /\ FetchIdle(Payloads, {LastMonthInvoice})

FetchNext ==
    \/ FetchCursorStats(JsDate(2025, 6, 15)) /\ FetchObserver
    \/ \E ok \in BOOLEAN : MonthDataSettled(ok) /\ FetchObserver
    \/ ResetNotifications /\ NoObserver

FetchSpec == FetchInit /\ [][FetchNext]_vars

\* The billing period: fetchCursorStats over the dates.
PeriodInit ==
    /\ NotifierSomewhere /\ Activated /\ NoCalls
    /\ FetchIdle({EmptyInvoice, LastMonthInvoice}, {LastMonthInvoice})

PeriodNext ==
    \/ \E date \in Dates : FetchCursorStats(date) /\ FetchObserver
    \/ \E ok \in BOOLEAN : MonthDataSettled(ok) /\ FetchObserver
    \/ ResetNotifications /\ NoObserver

PeriodSpec == PeriodInit /\ [][PeriodNext]_vars

\* A step of a service or of a formatting function.
CallObserver ==
    /\ UNCHANGED <<rearmed, spendTrack>>
    /\ ObserveReset
    /\ UNCHANGED lifecycleVars
    /\ UNCHANGED fetchVars
    /\ UNCHANGED uiVars

\* The services: getCursorTokenFromDB over the databases, and the billing
\* API functions over the outcomes of their requests.
ServicesInit ==
    /\ NotifierSomewhere /\ Activated /\ NoFetch
    /\ ServicesIdle(Databases)
    /\ progressBar = NoProgressBar
    /\ UiIdle

ServicesNext ==
    \/ GetCursorTokenFromDB /\ CallObserver
    \/ \E queued \in BOOLEAN : DatabaseOpened(queued) /\ CallObserver
    \/ QueryCompleted /\ CallObserver
    \/ \E fn \in ApiFunctions : ApiCall(fn) /\ CallObserver
    \/ \E ok \in BOOLEAN : ResponseArrived(ok) /\ CallObserver

ServicesSpec == ServicesInit /\ [][ServicesNext]_vars

\* generateProgressBar over usages, limits and overrides, at the default
\* size.
BarCalls ==
    { BarCall(current, max, overrideMax, DefaultBarSize) :
        current \in 0..MaxUsage, max \in 1..MaxUsage,
        overrideMax \in {<<>>} \cup { <<n>> : n \in 1..MaxUsage } }

BarInit ==
    /\ NotifierSomewhere /\ Activated /\ NoFetch
    /\ ServicesIdle({NoDatabase})
    /\ progressBar \in BarCalls
    /\ UiIdle

BarNext == RenderProgressBar /\ CallObserver

BarSpec == BarInit /\ [][BarNext]_vars

\* A step of the user interface: a command, a handler or a formatting
\* call.
UiObserver ==
    /\ UNCHANGED <<rearmed, spendTrack>>
    /\ ObserveReset
    /\ UNCHANGED lifecycleVars
    /\ UNCHANGED fetchVars
    /\ UNCHANGED callVars

\* The rest of the extension while the user interface is exercised.
BesidesUi ==
    /\ NotifierSomewhere /\ Activated /\ NoFetch
    /\ ServicesIdle({NoDatabase})
    /\ progressBar = NoProgressBar

\* The setLimit command, run again and again against the server, over the
\* answers of the user and the outcomes of the requests.
CommandInit ==
    /\ BesidesUi
    /\ limitCommand = NoLimitCommand
    /\ usageBasedPricing \in
          { UsageLimit(0, TRUE), UsageLimit(50, FALSE), UsageLimit(0, FALSE) }
    /\ notifiedThresholds = {}
    /\ handlerCheck = NoHandlerCheck
    /\ statusBarItem = NewStatusBarItem
    /\ statusRefresh = NoRefresh
    /\ colorSettings = DefaultColorSettings
    /\ tCall = NoTCall
    /\ timingCall = NoTimingCall

CommandNext ==
    \/ SetLimitCommand /\ UiObserver
    \/ \E hasToken \in BOOLEAN : CommandTokenSettled(hasToken) /\ UiObserver
    \/ \E ok \in BOOLEAN : CurrentLimitSettled(ok) /\ UiObserver
    \/ \E pick \in {<<>>} \cup { <<v>> : v \in QuickPickValues } :
          QuickPickSettled(pick) /\ UiObserver
    \/ \E limit \in LimitInputs : InputBoxSettled(limit) /\ UiObserver
    \/ \E ok \in BOOLEAN : SetUsageLimitSettled(ok) /\ UiObserver
    \/ UpdateStatsSettled /\ UiObserver

CommandSpec == CommandInit /\ [][CommandNext]_vars

\* The class-based handler over usages of a limit of 50 or 100 tokens,
\* with resets and changes of the settings in between.
HandlerInit == InitOver(HandlerConfigs) /\ Activated /\ NoFetch /\ NoCalls

HandlerNext ==
    \/ \E usage \in {0, 40, 45, 50} : \E limit \in {50, 100} :
          HandlerCheckAndNotifyUsage(usage, limit) /\ UiObserver
    \/ HandlerResetNotifications /\ UiObserver
    \/ \E c \in HandlerConfigs : ConfigChange(c) /\ NoObserver

HandlerSpec == HandlerInit /\ [][HandlerNext]_vars

\* The status bar refreshed again and again, over usages of a limit of
\* 100 tokens, with the settings changing in between.
StatusInit == BesidesUi /\ UiIdle

StatusNext ==
    \/ StatusRefresh /\ UiObserver
    \/ \E result \in {"token", "none", "rejected"} :
          RefreshTokenSettled(result) /\ UiObserver
    \/ \E result \in {"limit", "none", "rejected"} :
       \E usage \in {50, 80, 95} :
          RefreshLimitSettled(result, 100, usage) /\ UiObserver
    \/ \E settings \in AllColorSettings :
          ColorSettingsChanged(settings) /\ UiObserver

StatusSpec == StatusInit /\ [][StatusNext]_vars

\* t over the two locales, tables that hold all or part of the strings,
\* keys that name a string, a missing string, a missing group and a
\* group, with and without the parameter.
TCalls ==
    { TCall(locale, {"noToken"} \cup enMore, svLeaves, keys, params) :
        locale \in {"en", "sv"},
        enMore \in SUBSET {"retryingIn"},
        svLeaves \in SUBSET {"noToken", "retryingIn"},
        keys \in { <<"statusBar", "noToken">>, <<"statusBar", "retryingIn">>,
                   <<"statusBar", "lastUpdated">>, <<"tooltips", "noToken">>,
                   <<"statusBar">> },
        params \in SUBSET {"seconds"} }

TInit ==
    /\ BesidesUi
    /\ limitCommand = NoLimitCommand
    /\ usageBasedPricing = NoUsageBasedPricing
    /\ notifiedThresholds = {}
    /\ handlerCheck = NoHandlerCheck
    /\ statusBarItem = NewStatusBarItem
    /\ statusRefresh = NoRefresh
    /\ colorSettings = DefaultColorSettings
    /\ tCall \in TCalls
    /\ timingCall = NoTimingCall

TNext == Translate /\ UiObserver

TSpec == TInit /\ [][TNext]_vars

\* findNewestTimingInfo over the entries.
TimingInit ==
    /\ BesidesUi
    /\ limitCommand = NoLimitCommand
    /\ usageBasedPricing = NoUsageBasedPricing
    /\ notifiedThresholds = {}
    /\ handlerCheck = NoHandlerCheck
    /\ statusBarItem = NewStatusBarItem
    /\ statusRefresh = NoRefresh
    /\ colorSettings = DefaultColorSettings
    /\ tCall = NoTCall
    /\ timingCall \in { TimingCall(entries) : entries \in Entries }

TimingNext == FindNewestTimingInfo /\ UiObserver

TimingSpec == TimingInit /\ [][TimingNext]_vars

(***************************************************************************)
(* Properties.                                                             *)
(***************************************************************************)
UsageCall == ev.op = "checkAndNotifyUsage"

SpendingCall == ev.op = "checkAndNotifySpending"

\* The evaluation has ended after its notification was shown, normally or
\* by an exception of the follow-up command.
EndedAfterShown ==
    /\ ev.op = "resume"
    /\ ev.result \in {"done", "threw"}
    /\ ev.shown

\* The call ran its evaluation to the end without showing anything.
QuietEvaluation == ev.result = "done" /\ ev.op # "resume"

\* C1: a usage-based evaluation whose premium percentage is below 100 - 0
\* and a missing premium percentage included - shows no notification.
C1_NoUsageBasedBelowPremiumLimit ==
    ( /\ UsageCall
      /\ ev.type = "usage-based"
      /\ (ev.prem = <<>> \/ ev.prem[1] < 100) )
    => ev.result # "dialog"

\* C2: once a notification has been shown for percentage P on an axis, the
\* next evaluation with the same P on that axis (the list of thresholds
\* unchanged) shows nothing and leaves the axis's set as it is.
C2_SamePercentageStaysQuiet ==
    [][ ( /\ EndedAfterShown
          /\ ev.type \in UsageTypes
          /\ ev'.op = "checkAndNotifyUsage"
          /\ ev'.type = ev.type
          /\ ev'.amount = ev.amount )
        => ( /\ ev'.result # "dialog"
             /\ NotifiedOf(ev.type)' = NotifiedOf(ev.type) ) ]_vars

\* C3: a threshold t that fired is removed from its set by an evaluation
\* below t, and is back in the set at the end of the first evaluation at
\* or above t that follows: after a completed evaluation at P nothing
\* above P is in the set and no threshold cleared earlier and reached
\* again (t <= P) is still waiting to be notified.
C3_ClearedThresholdFiresAgain ==
    \A a \in UsageTypes :
        ( /\ ev.type = a
          /\ (EndedAfterShown \/ (UsageCall /\ QuietEvaluation)) )
        => ( /\ \A t \in NotifiedOf(a) : t <= ev.amount
             /\ \A t \in rearmed[a] : t > ev.amount )

\* C4: when an evaluation has shown its notification, for the highest
\* configured threshold h <= P, and has ended, the configured thresholds
\* in the axis's set are exactly those <= h.
C4_AllUpToFiredAreMarked ==
    ( EndedAfterShown /\ ev.type \in UsageTypes )
    => ( NotifiedOf(ev.type) \cap Range(config.usageAlertThresholds)
         = { t \in Range(config.usageAlertThresholds) : t <= ev.fired } )

\* C5: with a step S > 0, a spending evaluation that is not dropped and
\* whose total T has reached a multiple of S (T >= S) that is not in the
\* notified set shows a notification: an evaluation that ends without one
\* has the multiple reached by T in the set.
C5_ReachedMultipleIsNotified ==
    ( /\ SpendingCall
      /\ QuietEvaluation
      /\ config.spendingAlertThreshold > 0
      /\ ev.amount >= config.spendingAlertThreshold )
    => (ev.amount \div config.spendingAlertThreshold)
           \in notifiedSpendingThresholds

\* C6: over a non-decreasing sequence of totals with a fixed step S > 0,
\* every multiple is notified at most once, in increasing order, and
\* without gaps: a notification is for a multiple above all those shown
\* before, and the notified set is 1..k for some k.
C6_MultiplesOnceInOrderNoGaps ==
    [][ spendTrack'.ok =>
          ( /\ ( /\ ev'.op = "resume"
                 /\ ev'.type = "spending"
                 /\ ev'.at = "dialog"
                 /\ ev'.shown )
               => \A k \in spendTrack.shown : k < ev'.fired
            /\ \A k \in notifiedSpendingThresholds' :
                   \A j \in 1..k : j \in notifiedSpendingThresholds' ) ]_vars

\* C7: while isNotificationInProgress is true every call of
\* checkAndNotifyUsage and of checkAndNotifySpending returns at once:
\* no notification, the three sets, the suspended evaluations and the
\* flag as they were.
C7_CallsDroppedWhileInProgress ==
    [][ ( /\ isNotificationInProgress
          /\ ev'.op \in {"checkAndNotifyUsage", "checkAndNotifySpending"} )
        => ( /\ ev'.result = "dropped"
             /\ isNotificationInProgress'
             /\ UNCHANGED <<notifiedPremiumThresholds,
                            notifiedUsageBasedThresholds,
                            notifiedSpendingThresholds, evals>> ) ]_vars

\* C7 happens: a spending call was dropped while a usage evaluation had
\* its dialog open.
C7_Witness ==
    /\ SpendingCall
    /\ ev.result = "dropped"
    /\ isNotificationInProgress
    /\ \E i \in 1..Len(evals) :
           evals[i].type \in UsageTypes /\ evals[i].pc = "dialog"

\* C8: an evaluation that ends - normally, at the suppression return, or
\* by an exception of the dialog, the currency conversion or a command -
\* leaves the flag false, and the flag is false whenever no evaluation is
\* suspended.
C8_FlagClearedOnEveryPath ==
    /\ (evals = <<>>) => ~isNotificationInProgress
    /\ ( \/ ev.op = "resume" /\ ev.result \in {"done", "threw"}
         \/ (UsageCall \/ SpendingCall) /\ ev.result \in {"done", "suppressed"} )
       => ~isNotificationInProgress

\* C8 happens: an evaluation was ended by the exception of its setLimit
\* command, and the flag is false.
C8_Witness ==
    /\ ev.op = "resume"
    /\ ev.at = "setLimit"
    /\ ev.result = "threw"
    /\ evals = <<>>
    /\ ~isNotificationInProgress

\* C9: when the command dispatched for the notification's action fails,
\* the threshold that fired is in its set when the evaluation ends.
C9_FailedCommandStillRecords ==
    ( /\ ev.op = "resume"
      /\ ev.at \in {"setLimit", "openSettings",
                    "fallback1", "fallback2", "fallback3"}
      /\ ev.outcome = "rejected"
      /\ ev.result \in {"done", "threw"} )
    => ev.fired \in NotifiedOf(ev.type)

\* C10: with a step <= 0 a call of checkAndNotifySpending shows nothing,
\* starts no evaluation, and leaves the three sets and the flag as they
\* were.
C10_NonPositiveStepDisables ==
    [][ ( /\ ev'.op = "checkAndNotifySpending"
          /\ config.spendingAlertThreshold <= 0 )
        => ( /\ ev'.result \in {"dropped", "disabled"}
             /\ UNCHANGED <<notifiedPremiumThresholds,
                            notifiedUsageBasedThresholds,
                            notifiedSpendingThresholds, evals,
                            isNotificationInProgress>> ) ]_vars

\* C10 happens: a call with a negative step returned at the guard while no
\* evaluation was in progress.
C10_Witness ==
    /\ SpendingCall
    /\ ev.result = "disabled"
    /\ config.spendingAlertThreshold < 0
    /\ ~isNotificationInProgress

\* C11: resetNotifications leaves the three notified sets empty and the
\* flag false, and no evaluation of the session starts before activate()
\* has called it.
C11_ResetClearsAndComesFirst ==
    /\ (ev.op = "resetNotifications") =>
           /\ notifiedPremiumThresholds = {}
           /\ notifiedUsageBasedThresholds = {}
           /\ notifiedSpendingThresholds = {}
           /\ ~isNotificationInProgress
    /\ (UsageCall \/ SpendingCall) => resetSeen

\* C11 happens: a reset emptied the sets while an evaluation was suspended
\* in the activated extension.
C11_Witness ==
    /\ ev.op = "resetNotifications"
    /\ evals # <<>>
    /\ activation = "done"
    /\ resetSeen

\* C19: the period of the refresh interval is at least 5000 ms for every
\* value of the setting, and 1000 times the configured seconds when these
\* are >= 5.
C19_RefreshIntervalFloor ==
    \A i \in 1..Len(refreshTimer) :
        LET seconds == IF refreshTimer[i].setting = <<>>
                       THEN DefaultRefreshInterval
                       ELSE refreshTimer[i].setting[1]
        IN  /\ refreshTimer[i].ms >= 5000
            /\ (seconds >= 5) => (refreshTimer[i].ms = 1000 * seconds)

\* C19 happens: the interval runs with the setting at 0 seconds.
C19_Witness ==
    /\ refreshTimer # <<>>
    /\ refreshTimer[1].setting = <<0>>
    /\ refreshTimer[1].ms = 5000

\* C20: after a window state event that reported the loss of focus, and
\* until the next one that reports focus, the refresh interval is cleared.
C20_PausedWhileUnfocused ==
    (lastWindowState = "unfocused") => (refreshTimer = <<>>)

\* C18: the billing period fetchCursorStats computes is the calendar month
\* and year of the date when the day of the month is >= 3, and the month
\* before (December of the year before, for January) when the day is < 3;
\* the month is always in 1..12.
C18_BillingPeriodOfDate ==
    (currentDate # NoDate) =>
        LET month == currentDate.month + 1
            year == currentDate.year
        IN  /\ usageBasedCurrentMonth \in 1..12
            /\ (currentDate.date >= 3) =>
                   /\ usageBasedCurrentMonth = month
                   /\ usageBasedCurrentYear = year
            /\ (currentDate.date < 3 /\ month > 1) =>
                   /\ usageBasedCurrentMonth = month - 1
                   /\ usageBasedCurrentYear = year
            /\ (currentDate.date < 3 /\ month = 1) =>
                   /\ usageBasedCurrentMonth = 12
                   /\ usageBasedCurrentYear = year - 1

\* C18 happens: on the 2nd of January 2025 the period is December 2024.
C18_Witness ==
    /\ currentDate = JsDate(2025, 0, 2)
    /\ usageBasedCurrentMonth = 12
    /\ usageBasedCurrentYear = 2024

\* The sum of the magnitudes of the mid-month payments of a list of items.
RECURSIVE MidMonthSum(_)
MidMonthSum(items) ==
    IF items = <<>> THEN 0
    ELSE LET item == Head(items)
         IN  MidMonthSum(Tail(items))
             + (IF HasCents(item) /\ item.description # <<>>
                   /\ IsMidMonth(item.description[1])
                THEN Abs(item.cents[1]) ELSE 0)

Months == {"currentMonth", "lastMonth"}

\* The items of the invoice a pass was run on.
ItemsOf(m) == IF invoices[m].items = <<>> THEN <<>> ELSE invoices[m].items[1]

MidMonthLines(m) ==
    { k \in 1..Len(monthData[m].items) : monthData[m].items[k].kind = "midMonth" }

\* C12: in the output of one pass no regular line is made from a mid-month
\* payment item, and when the payload has at least one mid-month payment
\* item the output has exactly one mid-month line, which shows the sum of
\* all of them.
C12_OneMidMonthLine ==
    \A m \in Months :
        (monthData[m].status = "returned") =>
            /\ \A k \in 1..Len(monthData[m].items) :
                   IsMidMonth(monthData[m].items[k].description)
                       => monthData[m].items[k].kind = "midMonth"
            /\ (MidMonthSum(ItemsOf(m)) > 0) =>
                   /\ Cardinality(MidMonthLines(m)) = 1
                   /\ \A k \in MidMonthLines(m) :
                          monthData[m].items[k].price = MidMonthSum(ItemsOf(m))

\* C13: when the request succeeded the pass returns, every item with cents
\* that can be parsed has its line, and an item that cannot be parsed has
\* none.
C13_MalformedItemIsSkipped ==
    \A m \in Months :
        (monthData[m].status \in {"returned", "threw"}) =>
            /\ monthData[m].status = "returned"
            /\ \A i \in 1..Len(ItemsOf(m)) :
                   (HasCents(ItemsOf(m)[i]) /\ ~Malformed(ItemsOf(m)[i]))
                       <=> \E k \in 1..Len(monthData[m].items) :
                               monthData[m].items[k].item = i

\* The number a run of decimal digits stands for.
RECURSIVE DigitsValue(_)
DigitsValue(digits) ==
    IF digits = <<>> THEN 0
    ELSE 10 * DigitsValue(SubSeq(digits, 1, Len(digits) - 1))
         + digits[Len(digits)]

\* The lines of a pass that carry a request count.
CountLines(m) ==
    { k \in 1..Len(monthData[m].items) : monthData[m].items[k].kind # "midMonth" }

\* C14: in the output of one pass every request count is written with as
\* many digits as the largest request count among the emitted lines has,
\* filled with zeros on the left, and stands for the count of its item.
C14_CountsPaddedToLargest ==
    \A m \in Months :
        (monthData[m].status = "returned") =>
            \A k \in CountLines(m) :
                LET line == monthData[m].items[k]
                    requestMatch == RequestMatch(line.description)
                IN  /\ \E j \in CountLines(m) :
                           /\ \A l \in CountLines(m) :
                                  DigitsValue(monthData[m].items[l].count)
                                      <= DigitsValue(monthData[m].items[j].count)
                           /\ Len(line.count)
                                  = Len(Digits(DigitsValue(monthData[m].items[j].count)))
                    /\ requestMatch # <<>>
                           => DigitsValue(line.count) = requestMatch[1]

\* C14 happens: the counts 7, 42 and 630 of one pass are written 007, 042
\* and 630.
C14_Witness ==
    /\ monthData["currentMonth"].status = "returned"
    /\ Len(monthData["currentMonth"].items) = 3
    /\ monthData["currentMonth"].items[1].count = <<0, 0, 7>>
    /\ monthData["currentMonth"].items[2].count = <<0, 4, 2>>
    /\ monthData["currentMonth"].items[3].count = <<6, 3, 0>>

\* The positions of the items that have cents, in input order.
CentsIndices(m) ==
    SelectSeq([ i \in 1..Len(ItemsOf(m)) |-> i ],
              LAMBDA i : HasCents(ItemsOf(m)[i]))

\* The leading counts of the items that have cents and are no mid-month
\* payment.
CountsWithCents(m) ==
    { RequestMatch(ItemsOf(m)[i].description[1])[1] :
        i \in { j \in 1..Len(ItemsOf(m)) :
                  /\ HasCents(ItemsOf(m)[j])
                  /\ ItemsOf(m)[j].description # <<>>
                  /\ ~IsMidMonth(ItemsOf(m)[j].description[1])
                  /\ RequestMatch(ItemsOf(m)[j].description[1]) # <<>> } }

\* C15: once the response has arrived, the lines of the pass are made from
\* the items that have cents, one line each and in input order; the items
\* without cents add nothing to the mid-month total and do not widen the
\* padding.
C15_OneLinePerItemWithCents ==
    \A m \in Months :
        (monthData[m].status \in {"returned", "threw"}) =>
            /\ [ k \in 1..Len(monthData[m].items) |-> monthData[m].items[k].item ]
                   = CentsIndices(m)
            /\ monthData[m].midMonthPayment = MidMonthSum(ItemsOf(m))
            /\ \A k \in CountLines(m) :
                   \/ Len(monthData[m].items[k].count) = 1
                   \/ \E c \in CountsWithCents(m) :
                          Len(monthData[m].items[k].count) = Len(Digits(c))

\* The usage events of the invoice a pass was run on.
EventsOf(m) ==
    IF invoices[m].usageEvents = <<>> THEN <<>> ELSE invoices[m].usageEvents[1]

\* A usage event of the model, at the price per request of the line within
\* 0.01, with the max-mode flag set.
MaxEventFor(e, line) ==
    LET count == DigitsValue(line.count)
    IN  /\ Composer(e) # <<>>
        /\ Composer(e)[1].modelIntent = line.label
        /\ Composer(e)[1].maxMode
        /\ count > 0
        /\ e.priceCents * count - 1000 * line.totalDollars < 10 * count
        /\ 1000 * line.totalDollars - e.priceCents * count < 10 * count

\* C16: a model-based line carries the MAX marker exactly when some usage
\* event of the payload has the model name of the line, a price within 0.01
\* of the cents of the line divided by its count, and the max-mode flag; a
\* line without model name is labelled (Requests) and carries no marker.
C16_MaxMarkerIffMatchingEvent ==
    \A m \in Months :
        (monthData[m].status = "returned") =>
            \A k \in 1..Len(monthData[m].items) :
                LET line == monthData[m].items[k]
                IN  (line.kind = "model") =>
                        IF ModelMatch(line.description) = <<>>
                        THEN line.label = "(Requests)" /\ ~line.max
                        ELSE /\ line.label = ModelMatch(line.description)[1]
                             /\ line.max <=>
                                    \E j \in 1..Len(EventsOf(m)) :
                                        MaxEventFor(EventsOf(m)[j], line)

\* C16 happens: one pass over usage events gives a line with the marker, a
\* line of another model without it, and a (Requests) line.
C16_Witness ==
    /\ monthData["currentMonth"].status = "returned"
    /\ EventsOf("currentMonth") # <<>>
    /\ Len(monthData["currentMonth"].items) = 3
    /\ monthData["currentMonth"].items[1].label = "claude"
    /\ monthData["currentMonth"].items[1].max
    /\ monthData["currentMonth"].items[2].label = "gpt-4"
    /\ ~monthData["currentMonth"].items[2].max
    /\ monthData["currentMonth"].items[3].label = "(Requests)"
    /\ ~monthData["currentMonth"].items[3].max

C25_AtMostOneEvaluationInFlight ==
    /\ Len(evals) <= 1
    /\ Cardinality({ i \in 1..Len(evals) : evals[i].pc = "dialog" }) <= 1

\* C26: when an evaluation of a usage axis that passed the re-entrancy
\* guard has ended - after a notification, with nothing fired, withheld by
\* the premium rule, or by an exception - the set of its axis holds no
\* threshold above the percentage it was given.
C26_NothingAbovePercentageStaysNotified ==
    ( /\ ev.op \in {"checkAndNotifyUsage", "resume"}
      /\ ev.type \in UsageTypes
      /\ ev.result \in {"done", "suppressed", "threw"} )
    => \A t \in NotifiedOf(ev.type) : t <= ev.amount

\* C27: an evaluation whose settings command or setLimit command failed
\* ends without raising.
C27_CommandFailureStaysInside ==
    ( /\ ev.op = "resume"
      /\ ev.at \in {"setLimit", "openSettings",
                    "fallback1", "fallback2", "fallback3"}
      /\ ev.outcome = "rejected" )
    => ev.result # "threw"

\* C28: once a change of the cursorStats settings has been handled, the
\* three notified sets are empty.
C28_ReconfigurationResets ==
    (ev.op \in {"configChange", "onDidChangeConfiguration"})
        => /\ notifiedPremiumThresholds = {}
           /\ notifiedUsageBasedThresholds = {}
           /\ notifiedSpendingThresholds = {}

\* C29: a step of an evaluation of one axis - the call or the continuation
\* after an await - leaves the sets of the two other axes as they were.
C29_AxesAreIndependent ==
    [][ (ev'.op \in {"checkAndNotifyUsage", "checkAndNotifySpending", "resume"})
        => ( /\ (ev'.type # "premium") => UNCHANGED notifiedPremiumThresholds
             /\ (ev'.type # "usage-based")
                    => UNCHANGED notifiedUsageBasedThresholds
             /\ (ev'.type # "spending")
                    => UNCHANGED notifiedSpendingThresholds ) ]_vars

\* C29 happens: a usage-based evaluation has marked its thresholds while
\* the premium set is empty and the spending set holds the multiple 3.
C29_Witness ==
    /\ ev.op = "resume"
    /\ ev.type = "usage-based"
    /\ ev.result = "done"
    /\ notifiedUsageBasedThresholds # {}
    /\ notifiedPremiumThresholds = {}
    /\ notifiedSpendingThresholds = {3}

\* C30: when the window gains focus and no cooldown is active, the
\* listener starts a stats update and the refresh interval; when a cooldown
\* is active it restarts the countdown display, starts no stats update and
\* leaves the refresh interval as it is.
C30_FocusGainedRespectsCooldown ==
    [][ (ev'.op = "onDidChangeWindowState" /\ lastWindowState' = "focused")
        => IF focusCalls'.cooling
           THEN /\ "startCountdownDisplay" \in focusCalls'.calls
                /\ "updateStats" \notin focusCalls'.calls
                /\ "startRefreshInterval" \notin focusCalls'.calls
                /\ UNCHANGED refreshTimer
           ELSE /\ "updateStats" \in focusCalls'.calls
                /\ "startRefreshInterval" \in focusCalls'.calls
                /\ "startCountdownDisplay" \notin focusCalls'.calls
                /\ refreshTimer' # <<>> ]_vars

\* C30 happens: the window has gained focus during a cooldown and the
\* refresh interval, cleared when the focus was lost, is still cleared.
C30_Witness ==
    /\ ev.op = "onDidChangeWindowState"
    /\ lastWindowState = "focused"
    /\ focusCalls.cooling
    /\ "startCountdownDisplay" \in focusCalls.calls
    /\ refreshTimer = <<>>
    /\ activation = "done"

\* C23: the bar generateProgressBar returns for a usage above a limit > 0
\* holds at least one red glyph, and the bar it returns for a usage up to
\* the limit holds none.
C23_RedGlyphIffOverLimit ==
    progressBar.returned =>
        /\ (progressBar.current > progressBar.max /\ progressBar.max > 0)
               => "red" \in Range(progressBar.bar)
        /\ (progressBar.current <= progressBar.max)
               => "red" \notin Range(progressBar.bar)

\* The call of getCursorTokenFromDB can give a session token: the database
\* opens, the query succeeds, and the row holds a JWT with a subject.
TokenAvailable ==
    /\ database.opens
    /\ ~database.queryFails
    /\ database.row # <<>>
    /\ database.row[1].kind = "jwt"

\* C21: the promise of getCursorTokenFromDB is never rejected; once the
\* callbacks of a call have run it is resolved, to undefined unless the
\* database opened, the query succeeded and the row held a JWT with a
\* subject, and the call has opened the database once and queried it once.
C21_TokenPromiseAlwaysResolves ==
    /\ tokenPromise.state # "rejected"
    /\ (tokenPc = "done") =>
           /\ tokenPromise.state = "resolved"
           /\ tokenPromise.resolves >= 1
           /\ (tokenPromise.value = <<>>) <=> ~TokenAvailable
           /\ dbAccess = [ opens |-> 1, queries |-> 1 ]

\* C21 happens: the stored value was no string, the processing threw, and
\* the promise is resolved to undefined.
C21_Witness ==
    /\ tokenPc = "done"
    /\ database.opens
    /\ ~database.queryFails
    /\ database.row # <<>>
    /\ database.row[1].kind = "notString"
    /\ tokenPromise.state = "resolved"
    /\ tokenPromise.value = <<>>

\* C22: a billing API function one of whose requests failed ends by
\* rejecting, without having sent the failed request again.
C22_TransportFailureSurfaces ==
    (apiCall.pc = "settled" /\ apiCall.failed) =>
        /\ apiCall.outcome = "rejected"
        /\ apiCall.sent = SubSeq(Requests(apiCall.fn), 1, Len(apiCall.sent))

\* C24: no line a call of getCursorTokenFromDB writes to the log shows the
\* whole stored token, as its leading characters or in decoded form.
C24_LogShowsOnlyAPrefix ==
    \A k \in 1..Len(tokenLog) :
        /\ ~tokenLog[k].decoded
        /\ (tokenLog[k].tokenChars > 0)
               => tokenLog[k].tokenChars < database.row[1].length

\* The suspended evaluation i has been overtaken: a later evaluation is
\* suspended too.  The later one passed the guard of lines 75-77, so the
\* flag evaluation i had set was cleared while i was in flight, which only
\* resetNotifications does to a suspended evaluation's flag (directly, or
\* through the end of an evaluation started after it).
Overtaken(i) ==
    /\ i < Len(evals)
    /\ \A j \in (i + 1)..Len(evals) : evals[j] # evals[i]

\* C31: when an evaluation that was in flight during a resetNotifications
\* and has been overtaken by an evaluation started after it goes on and
\* ends, the three notified sets stay as they are and the flag stays set.
C31_OvertakenEvaluationChangesNothing ==
    [][ \A i \in 1..Len(evals) :
          ( /\ Overtaken(i)
            /\ ev'.op = "resume"
            /\ ev'.result \in {"done", "threw"}
            /\ evals' = RemoveAt(evals, i) )
          => /\ UNCHANGED <<notifiedPremiumThresholds,
                            notifiedUsageBasedThresholds,
                            notifiedSpendingThresholds>>
             /\ isNotificationInProgress' ]_vars

\* C32: in a session whose list of thresholds stays as it is, the notified
\* set of each usage axis holds, with a threshold, every smaller threshold
\* of the list.
C32_NotifiedSetsAreDownwardClosed ==
    \A type \in UsageTypes :
        \A t \in NotifiedOf(type) :
            \A s \in Range(config.usageAlertThresholds) :
                (s < t) => (s \in NotifiedOf(type))

\* C32 happens: the premium set was marked up to a threshold and a drop of
\* the percentage has cleared its upper part.
C32_Witness ==
    /\ ev.op = "checkAndNotifyUsage"
    /\ ev.type = "premium"
    /\ ev.result = "done"
    /\ config.usageAlertThresholds = DefaultThresholds
    /\ notifiedPremiumThresholds = {10, 30, 50}
    /\ rearmed["premium"] # {}

\* C33: a check made while enableAlerts is false, of any of the three
\* axes, opens no dialog and starts nothing that leads to one, leaves the
\* three notified sets as they are and does not set the flag.
C33_DisabledAlertsStayQuiet ==
    [][ ( /\ ~config.enableAlerts
          /\ ev'.op \in {"checkAndNotifyUsage", "checkAndNotifySpending"} )
        => /\ ev'.result \notin {"dialog", "awaiting"}
           /\ UNCHANGED <<notifiedPremiumThresholds,
                          notifiedUsageBasedThresholds,
                          notifiedSpendingThresholds>>
           /\ isNotificationInProgress' = isNotificationInProgress ]_vars

\* C34: once the setLimit command has called setUsageLimit, it had a token
\* and an item of the pick was chosen; a write with noUsageBasedAllowed =
\* false comes from 'enable' with usage-based pricing disabled or from
\* 'set' with it enabled, each with a value from the input box; a write
\* with noUsageBasedAllowed = true is (0, true) and comes from 'disable'
\* with usage-based pricing enabled; while the write is under way the
\* status read is the one the server holds; and once the write has
\* succeeded updateStats has been called.
C34_WritesOnlyFromPermittedState ==
    LET c == limitCommand IN
    /\ (c.write # <<>>) =>
          /\ c.token
          /\ c.value \in QuickPickValues
          /\ ~c.write[1].noUsageBasedAllowed =>
                /\ c.limit = << c.write[1].hardLimit >>
                /\ \/ c.value = "enable" /\ c.isEnabled = <<FALSE>>
                   \/ c.value = "set" /\ c.isEnabled = <<TRUE>>
          /\ c.write[1].noUsageBasedAllowed =>
                /\ c.write[1].hardLimit = 0
                /\ c.value = "disable"
                /\ c.isEnabled = <<TRUE>>
    /\ (c.pc = "setUsageLimit") =>
          c.isEnabled = << ~usageBasedPricing.noUsageBasedAllowed >>
    /\ c.written => c.updated
    /\ (c.pc = "done" /\ (~c.token \/ c.value = "none")) => c.write = <<>>

\* C34 happens: 'enable' was chosen with usage-based pricing disabled, the
\* limit 50 was entered, the write succeeded and the command has ended.
C34_Witness ==
    /\ limitCommand.pc = "done"
    /\ limitCommand.value = "enable"
    /\ limitCommand.write = << UsageLimit(50, FALSE) >>
    /\ limitCommand.written
    /\ limitCommand.updated
    /\ usageBasedPricing = UsageLimit(50, FALSE)

\* C35: in the class-based handler no threshold has had more than one
\* message since the last resetNotifications, and a check made with the
\* alerts on has shown one message for each threshold of the list that the
\* percentage has reached and that was not notified before - all of them,
\* each once.
C35_OneMessagePerThresholdPerReset ==
    /\ \A t \in HandlerThresholds : handlerCheck.count[t] <= 1
    /\ ( /\ ev.op = "NotificationHandler.checkAndNotifyUsage"
         /\ handlerCheck.enabled ) =>
          /\ Range(handlerCheck.shown) =
                { t \in Range(config.usageAlertThresholds) :
                    /\ handlerCheck.percentage >= t
                    /\ t \notin handlerCheck.before }
          /\ Cardinality(Range(handlerCheck.shown)) = Len(handlerCheck.shown)

\* C35 happens: one check has shown the messages of 90 and of 100, and 75,
\* notified before, stays silent although the percentage had been below it.
C35_Witness ==
    /\ ev.op = "NotificationHandler.checkAndNotifyUsage"
    /\ handlerCheck.shown = <<90, 100>>
    /\ handlerCheck.before = {75}
    /\ 75 \in handlerCheck.dropped
    /\ handlerCheck.count[75] = 1

\* C36: once a refresh has succeeded, the background of the status bar
\* item is the one its percentage and the settings it read call for: the
\* error background from 90 with colours enabled, the warning background
\* from 75 with colours enabled, and none with colours disabled or below
\* 75.
C36_BackgroundFollowsLastRefresh ==
    ( /\ ev.op = "StatusBarHandler.refresh"
      /\ statusRefresh.pc = "done"
      /\ statusRefresh.outcome = "ok" )
    => statusBarItem.backgroundColor =
          ( IF ~statusRefresh.enableColors \/ statusRefresh.percentage < 75
            THEN <<>>
            ELSE IF statusRefresh.percentage >= 90
            THEN << "statusBarItem.errorBackground" >>
            ELSE << "statusBarItem.warningBackground" >> )

\* The string a table with the given strings holds under the key, <<>>
\* when it holds none.
StringAt(locale, leaves, keys) ==
    IF Len(keys) = 2 /\ keys[1] = "statusBar" /\ keys[2] \in leaves
    THEN << TextOf(locale, keys[2]) >>
    ELSE <<>>

\* The text with the placeholders of the given parameters filled in.
Filled(text, params) ==
    [ i \in 1..Len(text) |->
        IF text[i].ph # "" /\ text[i].ph \in params
        THEN Literal(ParamValue) ELSE text[i] ]

\* C37: t returns the string of the key in the current locale, with the
\* placeholders of the parameters replaced, when that table holds it;
\* otherwise the English string of the key (as it is or with the
\* placeholders replaced); otherwise the key.
C37_TranslationOrEnglishOrKey ==
    tCall.returned =>
        LET own == StringAt(tCall.locale,
                            IF tCall.locale = "en" THEN tCall.enLeaves
                            ELSE tCall.svLeaves, tCall.keys)
            en  == StringAt("en", tCall.enLeaves, tCall.keys)
        IN  IF own # <<>>
            THEN tCall.result = Returns("string", Filled(own[1], tCall.params))
            ELSE IF en # <<>>
            THEN tCall.result \in { Returns("string", en[1]),
                                    Returns("string", Filled(en[1], tCall.params)) }
            ELSE tCall.result = Returns("key", <<>>)

\* C38: findNewestTimingInfo gives null exactly when no entry that parses
\* has an item with a clientStartTime; otherwise the timing with the
\* greatest clientStartTime, from the first entry that holds that time and
\* the first item of that entry that holds it, tagged with the key of
\* that entry.
C38_NewestTimingOfAllEntries ==
    timingCall.returned =>
        LET entries == timingCall.entries
            timings ==
                { <<n, i>> \in (1..Len(entries)) \X (1..MaxConversation) :
                    /\ entries[n].kind = "data"
                    /\ i <= Len(entries[n].conversation)
                    /\ entries[n].conversation[i] # <<>> }
            time(p) == entries[p[1]].conversation[p[2]][1]
        IN  IF timings = {} THEN timingCall.result = <<>>
            ELSE LET greatest == { p \in timings :
                                     \A q \in timings : time(q) <= time(p) }
                     first == CHOOSE p \in greatest :
                                \A q \in greatest :
                                   \/ p[1] < q[1]
                                   \/ p[1] = q[1] /\ p[2] <= q[2]
                 IN  timingCall.result =
                        << Timing(first[1], time(first), first[2]) >>

\* C38 happens: the first entry does not parse, the second and a later
\* item hold the same greatest time, and the timing of the second entry is
\* returned.
C38_Witness ==
    /\ timingCall.returned
    /\ Len(timingCall.entries) = 2
    /\ timingCall.entries[1].kind = "invalid"
    /\ timingCall.entries[2] = Value("data", << <<2>>, <<2>> >>)
    /\ timingCall.result = << Timing(2, 2, 1) >>

====
